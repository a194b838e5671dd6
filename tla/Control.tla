------------------------------ MODULE Control ------------------------------
(***************************************************************************)
(* The REST API's connections: HttpController, HttpSession and the log     *)
(* they subscribe to.                                                      *)
(*                                                                         *)
(* An HttpSession reads one request and answers it, streams the traffic    *)
(* totals once a second, or streams the log.  Like Session it lives by the *)
(* handlers that hold `self`; a subscription to the log is one of them.    *)
(* Every line that a subscriber wants is posted, and each posted line      *)
(* starts an async_write of its own: a loop of writes to the socket, which *)
(* line up at the descriptor, so that the rest of a line that was cut      *)
(* short goes behind the lines that have come meanwhile.                   *)
(*                                                                         *)
(* Not here: what is answered (DELETE /connections is ApiClose of Session, *)
(* PUT /proxies is Select of Routing); that a traffic chunk cut short is   *)
(* resumed from a string that is gone; the log file.                       *)
(***************************************************************************)
EXTENDS Integers, Sequences, SequencesExt

CONSTANTS
    Viewers,      \* the connections of the API; each is used once
    Slow,         \* those whose socket may take a part of a line only
    Levels,       \* of lines, 1 the lowest; a greater target is "silent"
    currentLevel, \* the log's own level
    MaxLines      \* bound: lines printed

ASSUME ControlAssumption ==
    /\ Slow \subseteq Viewers
    /\ Levels \subseteq Nat /\ currentLevel \in Nat /\ MaxLines \in Nat

VARIABLES
    life, op, socket, peer,  \* each session, its step and its two ends
    target,       \* the level asked for
    subscribers,
    posted,       \* by viewer, the lines whose handlers are posted
    writes,       \* the writes at the descriptor, in order
    received,     \* history: what has been written to a viewer
    lines,        \* history: the levels of the lines printed
    since         \* history: lines printed when a viewer subscribed

sessionVars == <<life, op, socket, target, subscribers>>
vars == <<sessionVars, peer, posted, writes, received, lines, since>>

\* The steps before and beside the log: reading the request, the answer, the
\* head of a stream, a chunk of totals, the timer.
Steps == {"none", "read", "reply", "trafficHead", "trafficChunk", "tick", "logsHead"}
\* The chunk of a line, in the pieces a socket may take.
Pieces == 2
Chunk(i) == [k \in 1 .. Pieces |-> <<i, k>>]

Init ==
    /\ life = [v \in Viewers |-> "unborn"]
    /\ op = [v \in Viewers |-> "none"]
    /\ socket = [v \in Viewers |-> "open"]
    /\ peer = [v \in Viewers |-> "here"]
    /\ target = [v \in Viewers |-> 0]
    /\ subscribers = {}
    /\ posted = [v \in Viewers |-> <<>>]
    /\ writes = [v \in Viewers |-> <<>>]
    /\ received = [v \in Viewers |-> <<>>]
    /\ lines = <<>>
    /\ since = [v \in Viewers |-> 0]

-----------------------------------------------------------------------------
(* HttpSession. *)

\* Mutant: the handlers of a step have `this` and not `self`.
Held_NoStep(o, subscribed, ps, ws) == subscribed \/ ps # <<>> \/ ws # <<>>
\* What holds a session: its step, its subscription, posted lines, writes.
Held(o, subscribed, ps, ws) ==
    o # "none" \/ subscribed \/ ps # <<>> \/ ws # <<>>

\* A handler of v returns with step o and the lines ps and writes ws pending.
\* With nothing left ~HttpSession runs, which unsubscribes.
After(v, o, subscribed, ps, ws) ==
    /\ op' = [op EXCEPT ![v] = o]
    /\ posted' = [posted EXCEPT ![v] = ps]
    /\ writes' = [writes EXCEPT ![v] = ws]
    /\ LET held == Held(o, subscribed, ps, ws)
       IN  /\ life' = [life EXCEPT ![v] = IF held THEN "alive" ELSE "gone"]
           /\ subscribers' = IF subscribed /\ held THEN subscribers \cup {v}
                                                   ELSE subscribers \ {v}

\* The handler of v's step leads to the step o.
Step(v, o, subscribed) == After(v, o, subscribed, posted[v], writes[v])

Accept(v) ==
    /\ life[v] = "unborn"
    /\ Step(v, "read", FALSE)
    /\ UNCHANGED <<socket, peer, target, received, lines, since>>

\* handle_request: the request decides what is written.
ReadDone(v) ==
    /\ op[v] = "read" /\ peer[v] = "here"
    /\ \/ \E o \in {"reply", "trafficHead"} : Step(v, o, FALSE) /\ UNCHANGED target
       \/ /\ Step(v, "logsHead", FALSE)
          /\ \E n \in Levels \cup {currentLevel + 1} : target' = [target EXCEPT ![v] = n]
    /\ UNCHANGED <<socket, peer, received, lines, since>>

\* What follows a step that went well; handle_logs subscribes.
Follows(o) ==
    CASE o = "trafficHead" -> "trafficChunk"
      [] o = "trafficChunk" -> "tick"
      [] o = "tick" -> "trafficChunk"
      [] OTHER -> "none"

StepDone(v) ==
    /\ op[v] \notin {"none", "read"}
    /\ Step(v, Follows(op[v]), op[v] = "logsHead")
    /\ since' = IF op[v] = "logsHead" THEN [since EXCEPT ![v] = Len(lines)] ELSE since
    /\ UNCHANGED <<socket, peer, target, received, lines>>

\* Mutant: a stream of totals goes on when the viewer has left.
StepFails_Goes(v) ==
    /\ op[v] \notin {"none", "tick"} /\ peer[v] = "gone"
    /\ Step(v, Follows(op[v]), FALSE)
    /\ UNCHANGED <<socket, peer, target, received, lines, since>>
\* With an error the handler does nothing; the timer has none.
StepFails(v) ==
    /\ op[v] \notin {"none", "tick"} /\ peer[v] = "gone"
    /\ Step(v, "none", FALSE)
    /\ UNCHANGED <<socket, peer, target, received, lines, since>>

-----------------------------------------------------------------------------
(* The log and its subscribers. *)

Wanted(v, level) == level >= target[v]

\* log::print, called from some handler of the program: the callbacks run
\* within the call, under the mutex, and post.
LogLine(level) ==
    /\ Len(lines) < MaxLines
    /\ lines' = Append(lines, level)
    /\ posted' = [v \in Viewers |->
          IF v \in subscribers /\ level >= currentLevel /\ Wanted(v, level)
          THEN Append(posted[v], Len(lines')) ELSE posted[v]]
    /\ UNCHANGED <<sessionVars, peer, writes, received, since>>

\* A posted handler starts the async_write of its chunk.
PostedRuns(v) ==
    /\ posted[v] # <<>>
    /\ After(v, op[v], v \in subscribers, Tail(posted[v]),
             Append(writes[v], Chunk(Head(posted[v]))))
    /\ UNCHANGED <<socket, peer, target, received, lines, since>>

\* Mutant: the rest of a chunk is forgotten.
Rest_Dropped(ws, rest) == Tail(ws)
\* async_write goes on with what the socket has not taken, behind the others.
Rest(ws, rest) == IF rest = <<>> THEN Tail(ws) ELSE Append(Tail(ws), rest)

WriteDone(v) ==
    /\ writes[v] # <<>> /\ socket[v] = "open"
    /\ LET chunk == Head(writes[v])
       IN  \E n \in 1 .. Len(chunk) :
            /\ n < Len(chunk) => v \in Slow
            /\ received' = [received EXCEPT ![v] = @ \o SubSeq(chunk, 1, n)]
            /\ After(v, op[v], v \in subscribers, posted[v],
                     Rest(writes[v], SubSeq(chunk, n + 1, Len(chunk))))
    /\ UNCHANGED <<socket, peer, target, lines, since>>

\* The handler closes the socket, and so ends the writes behind it.
WriteFails(v) ==
    /\ writes[v] # <<>> /\ (socket[v] = "closed" \/ peer[v] = "gone")
    /\ socket' = [socket EXCEPT ![v] = "closed"]
    /\ After(v, op[v], v \in subscribers, posted[v], Tail(writes[v]))
    /\ UNCHANGED <<peer, target, received, lines, since>>

-----------------------------------------------------------------------------

\* Environment: a viewer leaves.
Leave(v) ==
    /\ life[v] = "alive" /\ peer[v] = "here"
    /\ peer' = [peer EXCEPT ![v] = "gone"]
    /\ UNCHANGED <<sessionVars, posted, writes, received, lines, since>>

Next ==
    \/ \E v \in Viewers :
        \/ Accept(v) \/ ReadDone(v) \/ StepDone(v) \/ StepFails(v)
        \/ PostedRuns(v) \/ WriteDone(v) \/ WriteFails(v) \/ Leave(v)
    \/ \E level \in Levels : LogLine(level)

Spec == Init /\ [][Next]_vars

\* The loop runs what is ready, the timer expires, and a viewer that is there
\* reads.  What is written to one that has left fails in the end.
Fairness == \A v \in Viewers :
    /\ WF_vars(StepDone(v)) /\ SF_vars(StepFails(v))
    /\ WF_vars(PostedRuns(v)) /\ WF_vars(WriteDone(v) \/ WriteFails(v))

FairSpec == Spec /\ Fairness

-----------------------------------------------------------------------------
(* Properties. *)

\* Types of the sessions' and the log's variables.
TypeOK ==
    /\ life \in [Viewers -> {"unborn", "alive", "gone"}]
    /\ op \in [Viewers -> Steps]
    /\ socket \in [Viewers -> {"open", "closed"}]
    /\ peer \in [Viewers -> {"here", "gone"}]
    /\ target \in [Viewers -> Nat]
    /\ subscribers \in SUBSET Viewers
    /\ posted \in [Viewers -> Seq(Nat)]
    /\ writes \in [Viewers -> Seq(Seq(Nat \X Nat) \ {<<>>})]
    /\ received \in [Viewers -> Seq(Nat \X Nat)]
    /\ lines \in Seq(Levels)
    /\ since \in [Viewers -> Nat]

\* The log calls back, and posted lines and writes run on, sessions that exist
\* only; `this` in a handler never dangles.
OnlyTheLiving ==
    \A v \in Viewers :
        (v \in subscribers \/ op[v] # "none" \/ posted[v] # <<>> \/ writes[v] # <<>>)
            <=> life[v] = "alive"

\* The pieces a viewer is owed: of the lines at its level, since it subscribed.
Owed(v) ==
    {i \in since[v] + 1 .. Len(lines) :
        lines[i] >= currentLevel /\ lines[i] >= target[v]} \X (1 .. Pieces)

\* The pieces it has got, those that are being written, and those that are posted.
Flow(v) == received[v] \o FlattenSeq(writes[v])
              \o FlattenSeq([i \in DOMAIN posted[v] |-> Chunk(posted[v][i])])

\* Of lines in the order they were printed, and of a line in its own.
Before(x, y) == x[1] < y[1] \/ (x[1] = y[1] /\ x[2] < y[2])
InOrder(s) == \A i, j \in DOMAIN s : i < j => Before(s[i], s[j])

\* While a viewer's socket is open, what it has got, what is being written and
\* what is posted make up all that it is owed and nothing else, each piece
\* once; in order and in one piece each line, unless its socket takes parts of
\* lines.
LinesAccounted ==
    \A v \in subscribers : socket[v] = "open" =>
        /\ ToSet(Flow(v)) = Owed(v) /\ IsInjective(Flow(v))
        /\ v \notin Slow => InOrder(Flow(v))

\* A session whose viewer has left ends, a stream of totals too, but not one
\* that had subscribed to the log by then.
LeftSessionsEnd ==
    \A v \in Viewers :
        (life[v] = "alive" /\ peer[v] = "gone")
            ~> (life[v] = "gone" \/ v \in subscribers)

=============================================================================
