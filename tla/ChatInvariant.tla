--------------------------- MODULE ChatInvariant ---------------------------
(***************************************************************************)
(* The inductive invariant behind the safety properties of ChatCoordinator: *)
(* how the router's position, the slot, the tasks' positions and the        *)
(* prompts are tied to each other between any two steps.                    *)
(***************************************************************************)
EXTENDS ChatCoordinator

\* A call that is about to be bound or asked is a mutation under the limit.
CallInv ==
  \A t \in Turns :
    /\ pc[t] \in {"bind", "ask", "await"} => tools[t].call \in Mutations
    /\ pc[t] = "bind" => tools[t].asks < MaxMutationApprovals

\* A slot is reserved exactly while the router awaits the sendTurn response or
\* is about to start the turn, the slot stays empty while history is reset, and a
\* task has a position exactly once it started.
SlotInv ==
  /\ OneTurnAtATime
  /\ router.at \in {"sendLookup", "sendRespond", "sendStart"} => router.turn \in Turns
  /\ router.at = "sendLookup" => disposition[router.turn] = "none"
  /\ router.at = "resetStore" => activeTurn = NoTurn
  /\ \A t \in Turns :
       /\ Reserved(t) <=> router.at \in {"sendRespond", "sendStart"} /\ router.turn = t
       /\ disposition[t] = "none" \/ Reserved(t) => ~completed[t]
       /\ pc[t] = "off" <=> disposition[t] # "Started"

\* A task reaches its last position exactly by its terminal report, and only
\* turns whose acceptance was delivered are started.
TerminalInv ==
  /\ router.at = "sendStart" => router.turn \in accepted
  /\ \A t \in Turns :
       /\ Len(terminals[t]) <= 1
       /\ terminals[t] # <<>> \/ t \in lost <=> pc[t] = "end"
       /\ completed[t] => pc[t] = "end" \/ disposition[t] = "Aborted"
       /\ t \in accepted => \/ disposition[t] = "Started"
                            \/ router.at = "sendStart" /\ router.turn = t
       /\ disposition[t] = "Started" => t \in accepted

\* Positions at which the prompt of the current call has been answered and not
\* been used yet.
BeforeCall == {"toolStart", "submit"}

\* Prompts are numbered in order; only the router's own pending answer keeps a
\* prompt in Prepared; an allowed resolution is the answer the router took.
PromptStateInv ==
  \A a \in Approvals :
    /\ a[2] > tools[a[1]].asks => approvalState[a] = "none" /\ runs[a] = 0
    /\ approvalState[a] = "none" => a \notin approvals
    /\ approvalState[a] \in {"none", "Pending"} => resolution[a] = "none" /\ verdict[a] = "none"
    /\ approvalState[a] = "Prepared" =>
         /\ resolution[a] = "none"
         /\ router.at = "approvalRespond" /\ router.approval = a /\ router.taken
         /\ router.allow <=> verdict[a] = "allow"
    /\ resolution[a] = "allow" => verdict[a] = "allow"
    /\ runs[a] > 0 => runs[a] = 1 /\ resolution[a] = "allow"

\* A mutation that is not submitted yet has an unused prompt.
PromptUseInv ==
  \A t \in Turns :
    /\ pc[t] \in {"ask", "await"} => tools[t].asks > 0 /\ runs[Prompt(t)] = 0
    /\ pc[t] \in BeforeCall /\ tools[t].call # Read =>
         tools[t].asks > 0 /\ runs[Prompt(t)] = 0 /\ resolution[Prompt(t)] = "allow"

PromptInv == PromptStateInv /\ PromptUseInv

\* The steps after which a turn only reports its end.
EndSteps == {"cancelled", "cancelError", "cancelTerminal", "failed", "failTerminal", "end"}

\* Where a tool call is open: its end is still to come, or the turn has left the
\* path to its completed event.
ToolSteps == {"submit", "calling", "reportStarted", "reportFailed", "unknown"} \cup EndSteps

ToolInv == \A t \in toolOpen : pc[t] \in ToolSteps /\ terminals[t] # <<"completed">>

\* A prompt belongs to the call it was made for; what it was answered, unless it
\* was allowed, is remembered before the task can bind another.
DeniedInv ==
  /\ DeniedStaysDenied
  /\ \A t \in Turns :
       /\ pc[t] = "bind" => tools[t].call \notin tools[t].denied
       /\ pc[t] \in {"ask", "await"} => asked[Prompt(t)] = tools[t].call
  /\ \A a \in Approvals : asked[a] # NoCall =>
       /\ a[2] <= tools[a[1]].asks
       /\ \/ resolution[a] = "allow"
          \/ asked[a] \in tools[a[1]].denied
          \/ pc[a[1]] \in {"ask", "await"} /\ a = Prompt(a[1])
          \/ pc[a[1]] \in EndSteps

\* With a pipe that does not stall, a turn about to be reported as cancelled has
\* kept its text, or said that it could not, or its report will not arrive.
TextInv ==
  ~PipeMayStall =>
    /\ pipe # "stalled"
    /\ \A t \in Turns :
         /\ pc[t] = "off" => ~text[t].shown
         /\ pc[t] = "cancelTerminal" /\ text[t].shown =>
              text[t].stored \/ text[t].warned \/ pipe = "broken"
         /\ terminals[t] = <<"cancelled">> /\ text[t].shown => text[t].stored \/ text[t].warned

\* Only a task that is about to wait for its prompt, or waits for it, has one
\* registered.
RegisteredInv == \A a \in approvals : pc[a[1]] \in {"ask", "await"} /\ a = Prompt(a[1])

\* A live client has one owner, which disposes it before it is done; once the
\* worker has taken the turn, no other turn and no other client can appear.
StopInv ==
  /\ clientState = "live" => mcpClient \/ \E s \in Stoppers : stopper[s].client
  /\ \A s \in Stoppers : stopper[s].at \in {"idle", "done"} => ~stopper[s].client
  /\ stopper["worker"].at # "idle" =>
       /\ router.at = "exited" /\ ~mcpClient
       /\ activeTurn \in {NoTurn, stopper["worker"].turn}
  /\ stopper["worker"].at \in {"dispose", "done"} /\ ~stopper["worker"].expired =>
       activeTurn = NoTurn

IInv ==
  /\ TypeOK /\ CallInv /\ SlotInv /\ TerminalInv /\ PromptInv
  /\ ToolInv /\ DeniedInv /\ TextInv /\ RegisteredInv /\ StopInv
=============================================================================
