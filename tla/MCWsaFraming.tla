---------------------------- MODULE MCWsaFraming ----------------------------
(* A message that just fits into the arrays, one of nothing but its        *)
(* numbers, and from one sender a message that does not fit.               *)
EXTENDS WsaFraming

CONSTANT Wordy  (* the sender whose messages do not fit                    *)

MCMessage(f) ==
  IF f[1] = Wordy
  THEN [topicId |-> 1, userData |-> 0, source |-> <<78, 71>>, payload |-> <<51, 52>>]
  ELSE IF f[2] % 2 = 0
  THEN [topicId |-> 0, userData |-> 0, source |-> <<>>, payload |-> <<>>]
  ELSE [topicId |-> 3, userData |-> 16456, source |-> <<78, 71>>, payload |-> <<51>>]
=============================================================================
