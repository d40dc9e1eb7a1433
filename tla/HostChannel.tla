---------------------------- MODULE HostChannel ----------------------------
(***************************************************************************)
(* What AssistantHostBridge promises the window: a channel to one ChatHost, *)
(* with threads, flags, the process and the queue left out.                 *)
(*                                                                         *)
(* The window hears of each event once.  The two threads do not wait for    *)
(* each other, so a failure may be reported before the connection, which is *)
(* then still reported; but frames are taken and written only after         *)
(* "Connected" and before an end, each once and in the order taken.  After  *)
(* the end of Start or StopAndJoin nothing is heard or written.             *)
(***************************************************************************)
EXTENDS Naturals, Sequences

CONSTANT Frames

VARIABLES up,       \* the bridge has been started and not been joined
          heard,    \* the state updates the window was sent, in order
          posted,   \* the frames Post has accepted
          sent      \* the frames written to ChatHost

vars == <<up, heard, posted, sent>>

Heard(s) == \E i \in DOMAIN heard : heard[i] = s
Open     == up /\ Heard("Connected") /\ ~Heard("Failed") /\ ~Heard("Stopped")

Tell(s) == up /\ heard' = Append(heard, s) /\ UNCHANGED <<posted, sent>>

Init == ~up /\ heard = << >> /\ posted = << >> /\ sent = << >>

Start ==
  /\ heard = << >>
  /\ \/ heard' = <<"Starting">> /\ up'
     \/ heard' = <<"Starting", "Failed">> /\ ~up'
  /\ UNCHANGED <<posted, sent>>

\* Start may fail after it has started the writer, which may have failed too.
StartGivesUp == ~Heard("WaitingForConnection") /\ Tell("Failed") /\ ~up'

Wait    == ~Heard("WaitingForConnection") /\ Tell("WaitingForConnection") /\ up'
Connect == /\ Heard("WaitingForConnection") /\ ~Heard("Connected")
           /\ Tell("Connected") /\ up'

\* A failure and ChatHost's own clean end may both be met, by different threads.
Fail == ~Heard("Failed") /\ Tell("Failed") /\ up'
End  == Heard("Connected") /\ ~Heard("Stopped") /\ Tell("Stopped") /\ up'
Stop == Tell("Stopped") /\ ~up'

Post(f) ==
  /\ Open
  /\ posted' = Append(posted, f)
  /\ UNCHANGED <<up, heard, sent>>

Write ==
  /\ Open /\ Len(sent) < Len(posted)
  /\ sent' = Append(sent, posted[Len(sent) + 1])
  /\ UNCHANGED <<up, heard, posted>>

Next == Start \/ StartGivesUp \/ Wait \/ Connect \/ Fail \/ End \/ Stop \/ Write
          \/ \E f \in Frames : Post(f)

Spec == Init /\ [][Next]_vars
=============================================================================
