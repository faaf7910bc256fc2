------------------------------ MODULE LineStream ------------------------------
(***************************************************************************)
(* What the stdio transport of the MCP server promises: a client's bytes   *)
(* are handed over line by line, each line whole, once and in order, until *)
(* the first one that is not usable ends the session.                      *)
(***************************************************************************)
EXTENDS Integers, Sequences

CONSTANTS
  Byte,     \* what a client may send, a newline included
  Newline,
  Limit     \* the longest line that is handed over

VARIABLES
  unread,   \* the bytes sent and not yet handed over
  sending,  \* FALSE once the client has closed its end
  line,     \* the line being handled, if any
  serving   \* FALSE once the session is over

vars == <<unread, sending, line, serving>>

NoLine == <<Newline>>

Ends(i) == i \in DOMAIN unread /\ unread[i] = Newline
           /\ \A j \in 1 .. i - 1 : unread[j] # Newline

\* The unread bytes can begin no line that may be handed over.
TooLong == Len(unread) > Limit /\ \A i \in 1 .. Limit + 1 : unread[i] # Newline

Init == unread = <<>> /\ sending = TRUE /\ line = NoLine /\ serving = TRUE

Send == /\ sending /\ \E b \in Byte : unread' = Append(unread, b)
        /\ UNCHANGED <<sending, line, serving>>

Close == /\ sending' = FALSE /\ UNCHANGED <<unread, line, serving>>

Take == /\ serving /\ line = NoLine
        /\ \E i \in 1 .. Limit + 1 :
             /\ Ends(i)
             /\ line' = SubSeq(unread, 1, i - 1)
             /\ unread' = SubSeq(unread, i + 1, Len(unread))
        /\ UNCHANGED <<sending, serving>>

Handled == /\ line # NoLine /\ line' = NoLine /\ UNCHANGED <<unread, sending, serving>>

\* The session ends at a line that is too long, at the end of the stream (a
\* last line without its newline is not handed over), or while an answer is
\* written.
End == /\ line # NoLine \/ TooLong \/ (~sending /\ \A i \in DOMAIN unread : ~Ends(i))
       /\ serving' = FALSE /\ line' = NoLine
       /\ UNCHANGED sending
       /\ unread' = <<>>

Next == Send \/ Close \/ Take \/ Handled \/ End

Spec == Init /\ [][Next]_vars
===============================================================================
