-------------------------------- MODULE Lists --------------------------------
(* What Vec::retain and Array.filter leave of a list.                       *)
EXTENDS Naturals, Sequences

\* The list s without any a, the others in their order.
Without(s, a) ==
    LET kept[i \in 0 .. Len(s)] ==
          IF i = 0 THEN <<>>
          ELSE IF s[i] = a THEN kept[i - 1] ELSE Append(kept[i - 1], s[i])
    IN kept[Len(s)]
=============================================================================
