---------------------------- MODULE RoomMessage ----------------------------
(***************************************************************************)
(* The codec of hosted room messages (HostedRoomCrypto.swift of the Mac    *)
(* application) against the reference generator of its wire format         *)
(* (scripts/hosted-room-vectors.mjs).  A message is sealed for one room,   *)
(* key epoch and message id; whoever relays it chooses under which room    *)
(* and id it arrives, so the reader compares all of them.                  *)
(*                                                                         *)
(* ChaCha20-Poly1305 is an ideal seal: it opens with the key it was made   *)
(* with, and only when no byte has changed.                                *)
(***************************************************************************)
EXTENDS Naturals, Sequences

CONSTANTS
    Glyphs,      \* ids as one reads them
    Epoch,       \* key epochs
    Text,        \* texts of messages
    Key,         \* keys of 32 bytes
    Empty,       \* the empty id
    Nothing,     \* no content yet
    ShortKey,    \* a key of another length
    Domain, OtherDomain,
    Refused      \* Failure.invalidMessage

\* The same glyphs have two spellings in UTF-8.
Id == [glyphs: Glyphs, form: {"composed", "decomposed"}]
Context == [room: Id \cup {Empty}, epoch: Epoch, message: Id \cup {Empty}]

ASSUME RoomMessageAssumption ==
    /\ Epoch \subseteq Nat /\ 0 \in Epoch /\ ShortKey \notin Key
    /\ Refused \notin Text /\ Empty \notin Id /\ Domain # OtherDomain

VARIABLES
    content,     \* the string on its way
    origin,   \* history: what it was sealed for, <<>> for an invalid vector
    result    \* what decrypt returned for which key and context

roomVars == <<content, origin, result>>

----------------------------------------------------------------------------

\* validate()
Valid(key, ctx) == key # ShortKey /\ ctx.room # Empty /\ ctx.message # Empty

\* A JSON value of the payload, and a number in decimal without leading zeros.
Json(type, v) == [type |-> type, v |-> v]
Decimal(n) == [zeros |-> 0, n |-> n]

\* Mutant: the ids in the other order.
PayloadSwapped(ctx, text) ==
    << Json("string", Domain), Json("string", ctx.message),
       Json("string", Decimal(ctx.epoch)), Json("string", ctx.room), Json("string", text) >>

\* The five strings.
Payload(ctx, text) ==
    << Json("string", Domain), Json("string", ctx.room),
       Json("string", Decimal(ctx.epoch)), Json("string", ctx.message), Json("string", text) >>

\* Bytes in an encoding, and the seal around them in its text form.
Plain(coding, shape, json) == [coding |-> coding, shape |-> shape, json |-> json]
Seal(key, plain) == [prefix |-> "cow1:", base64 |-> "canonical", intact |-> TRUE,
                     key |-> key, plain |-> plain]

\* The payloads no reader may accept.
InvalidPlain(ctx, text) ==
    LET good == Payload(ctx, text)
        with(i, value) == Plain("utf8", "array", [good EXCEPT ![i] = value])
    IN  { with(1, Json("string", OtherDomain)),
          with(3, Json("number", Decimal(ctx.epoch))),
          with(3, Json("string", [zeros |-> 1, n |-> ctx.epoch])),
          with(5, Json("surrogate", text)),
          Plain("utf8", "array", SubSeq(good, 1, 4)),
          Plain("utf8", "array", Append(good, Json("string", text))),
          Plain("utf8", "object", good), Plain("broken", "array", <<>>),
          Plain("utf16", "array", good), Plain("bom", "array", good) }

\* Base64 without padding or other spellings, around a nonce and a tag.
Armored(w) == w.prefix = "cow1:" /\ w.base64 = "canonical"

Opens(w, key) == w.intact /\ w.key = key

\* UTF-8 without a byte order mark and without NUL.
WireEncoding(plain) == plain.coding = "utf8"

\* Five strings.
FiveStrings(plain) ==
    /\ plain.shape = "array" /\ Len(plain.json) = 5
    /\ \A i \in DOMAIN plain.json : plain.json[i].type = "string"

\* Mutant: == of Swift, which takes two spellings of an id for the same.
SameIdFolded(x, y) == x.glyphs = y.glyphs

\* Byte for byte.
SameId(x, y) == x = y

InContext(json, ctx) ==
    /\ json[1].v = Domain /\ SameId(json[2].v, ctx.room)
    /\ json[3].v = Decimal(ctx.epoch) /\ SameId(json[4].v, ctx.message)

\* Mutant: off by one.
TextFieldBefore(json) == json[4].v

TextField(json) == json[5].v

\* decrypt()
Decrypt(w, key, ctx) ==
    IF /\ Valid(key, ctx) /\ Armored(w) /\ Opens(w, key) /\ WireEncoding(w.plain)
       /\ FiveStrings(w.plain) /\ InContext(w.plain.json, ctx)
    THEN TextField(w.plain.json) ELSE Refused

----------------------------------------------------------------------------

RoomInit == content = Nothing /\ origin = <<>> /\ result = <<>>

\* encrypt() throws for a key or a context that is not valid.
Encrypt(key, ctx, text) ==
    /\ content = Nothing /\ Valid(key, ctx)
    /\ content' = Seal(key, Plain("utf8", "array", Payload(ctx, text)))
    /\ origin' = <<key, ctx, text>> /\ UNCHANGED result

\* The reference generator seals a valid vector, or one of its invalid ones.
Vector(key, ctx, text) ==
    /\ content = Nothing /\ ctx.room # Empty /\ ctx.message # Empty
    /\ \/ content' = Seal(key, Plain("utf8", "array", Payload(ctx, text))) /\ origin' = <<key, ctx, text>>
       \/ \E plain \in InvalidPlain(ctx, text) : content' = Seal(key, plain) /\ origin' = <<>>
    /\ UNCHANGED result

\* The content is damaged, respelled or something else altogether.
Damage ==
    /\ content # Nothing /\ result = <<>> /\ content.intact /\ Armored(content)
    /\ \/ content' = [content EXCEPT !.intact = FALSE]
       \/ content' = [content EXCEPT !.base64 = "respelled"]
       \/ content' = [content EXCEPT !.prefix = "plain"]
    /\ origin' = <<>> /\ UNCHANGED result

\* It arrives, once or again, under some context, at a reader with some key.
Read(key, ctx) ==
    /\ content # Nothing
    /\ result' = <<key, ctx, Decrypt(content, key, ctx)>>
    /\ UNCHANGED <<content, origin>>

RoomNext ==
    \/ \E key \in Key \cup {ShortKey}, ctx \in Context :
          Read(key, ctx) \/ \E text \in Text : Encrypt(key, ctx, text)
    \/ \E key \in Key, ctx \in Context, text \in Text : Vector(key, ctx, text)
    \/ Damage

RoomSpec == RoomInit /\ [][RoomNext]_roomVars

----------------------------------------------------------------------------
(* Properties.                                                             *)

RoomMessageTypeOK ==
    /\ content = Nothing \/ (content.key \in Key /\ content.intact \in BOOLEAN)
    /\ origin = <<>> \/ origin \in Key \X Context \X Text
    /\ result = <<>> \/ result \in (Key \cup {ShortKey}) \X Context \X (Text \cup {Refused})

\* A text is returned only to a reader with the key, room, epoch and message id
\* it was sealed for, spelled the same; no invalid vector and no damaged
\* content is ever read, whatever context it arrives under
\* (docs/hosted-room-crypto.md:28).
ReadInContext == result # <<>> => result[3] = Refused \/ result = origin

\* What encrypt or the generator sealed is read by whoever has its key and
\* context: no check refuses the format itself.
SealedIsReadable ==
    result # <<>> /\ origin # <<>> =>
        (result[1] = origin[1] /\ result[2] = origin[2] => result[3] = origin[3])

\* The codec reads what was sealed in its context, and nothing else.
CodecSound == RoomMessageTypeOK /\ ReadInContext /\ SealedIsReadable

=============================================================================
