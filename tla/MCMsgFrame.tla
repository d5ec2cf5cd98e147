----------------------------- MODULE MCMsgFrame -----------------------------
(* Replies whose bytes need both escapes, in the header and in the data,     *)
(* and look like escaped ones, and as many mishaps as the theorem            *)
(* AttemptsSuffice bears.                                                    *)
EXTENDS MsgFrame

MCReplies == { [seq |-> 2, type |-> 0, data |-> <<7>>],
               [seq |-> 5, type |-> 1, data |-> <<0>>] }

ASSUME MishapsAssumption == Enough
=============================================================================
