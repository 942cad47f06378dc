---------------------------- MODULE ServerProofs ----------------------------
(***************************************************************************)
(* Proofs about Server for every set of sessions and of threads: a dead    *)
(* session is kept in the map only by the race between its own handler and *)
(* the thread that accepted it, or by a damaged map; with one thread       *)
(* neither happens; and the server never stops accepting.                  *)
(*                                                                         *)
(* The invariant follows the chain of a session's reads: a read in         *)
(* progress, a handler that is ready, or one that is running.  The chain   *)
(* ends with an erase only.                                                *)
(***************************************************************************)
EXTENDS Server, TLAPS

\* The part of TypeOK that the arguments below rest on.
Shapes == /\ accepting \in Sessions \cup {None}
          /\ made \subseteq Sessions
          /\ lost \subseteq Sessions
          /\ reading \subseteq Sessions
          /\ writing \subseteq Sessions
          /\ ready \subseteq Handlers
          /\ handler \in [Threads -> Handlers \cup {None}]
          /\ pc \in [Threads -> Places]
          /\ sessions \subseteq Sessions
          /\ sending \in Sessions \cup {None}
          /\ raced \in BOOLEAN
          /\ overtaken \subseteq Sessions

\* Where a thread is follows from the handler it runs.
InHandler == \A t \in Threads :
               /\ pc[t] = "idle" <=> handler[t] = None
               /\ pc[t] \in {"start", "insert", "inserting", "rearm"}
                    => handler[t].kind = "accept"
               /\ pc[t] \in {"handle", "erase", "erasing"}
                    => handler[t].kind \in {"read", "write"}

Chain(s) == \/ s \in reading
            \/ \E h \in ready : h.kind = "read" /\ h.session = s
            \/ \E t \in Threads : handler[t] # None /\ handler[t].kind = "read" /\ Of(t) = s

\* A session that is in the map or about to be has its chain of reads.
Chained == \A s \in Sessions :
             s \in sessions \/ Entering(s) => Chain(s) \/ s \in overtaken \/ raced

IInv == Shapes /\ InHandler /\ Chained

-----------------------------------------------------------------------------

LEMMA NoneIsNoHandler == ASSUME ServerAssumption
                         PROVE  None \notin Handlers /\ \A h \in Handlers : h # None
  BY ServerAssumption DEF ServerAssumption

LEMMA InitIInv == ASSUME ServerAssumption PROVE Init => IInv
<1> SUFFICES ASSUME Init PROVE IInv
  OBVIOUS
<1>1. First \in Sessions
  BY ServerAssumption DEF ServerAssumption, First
<1>2. Shapes
  BY <1>1 DEF Init, Shapes, Places
<1>3. InHandler
  BY DEF Init, InHandler
<1>4. Chained
  BY DEF Init, Chained, Entering
<1> QED
  BY <1>2, <1>3, <1>4 DEF IInv

-----------------------------------------------------------------------------
(* The sockets: an operation becomes a ready handler.                       *)

LEMMA AcceptEndsIInv == ASSUME IInv, NEW ok \in BOOLEAN, AcceptEnds(ok) PROVE IInv'
<1> USE DEF IInv
<1>1. /\ accepting \in Sessions
      /\ ready' = ready \cup {[kind |-> "accept", session |-> accepting, ok |-> ok]}
      /\ accepting' = None
      /\ UNCHANGED <<made, lost, reading, writing, handler, pc, sessions, sending,
                     raced, overtaken>>
  BY DEF AcceptEnds, Done, Shapes, logic
<1>2. Shapes'
  BY <1>1 DEF Shapes, Handlers, Kinds
<1>3. InHandler'
  BY <1>1 DEF InHandler
<1>4. Chained'
  BY <1>1 DEF Chained, Chain, Entering, Of
<1> QED
  BY <1>2, <1>3, <1>4

LEMMA LoseIInv == ASSUME IInv, NEW s \in Sessions, Lose(s) PROVE IInv'
<1> USE DEF IInv
<1>1. /\ lost' = lost \cup {s}
      /\ UNCHANGED <<accepting, made, reading, writing, ready, handler, pc, sessions,
                     sending, raced, overtaken>>
  BY DEF Lose, logic
<1>2. Shapes'
  BY <1>1 DEF Shapes
<1>3. InHandler' /\ Chained'
  BY <1>1 DEF InHandler, Chained, Chain, Entering, Of
<1> QED
  BY <1>2, <1>3

LEMMA ReadEndsIInv == ASSUME IInv, NEW s \in Sessions, ReadEnds(s) PROVE IInv'
<1> USE DEF IInv
<1> DEFINE h == [kind |-> "read", session |-> s, ok |-> s \notin lost]
<1>1. /\ reading' = reading \ {s}
      /\ ready' = ready \cup {h}
      /\ UNCHANGED <<accepting, made, lost, writing, handler, pc, sessions, sending,
                     raced, overtaken>>
  BY DEF ReadEnds, Done, logic
<1>2. h \in Handlers /\ h.kind = "read" /\ h.session = s
  BY DEF Handlers, Kinds
<1>3. Shapes'
  BY <1>1, <1>2 DEF Shapes
<1>4. InHandler'
  BY <1>1 DEF InHandler
<1>5. ASSUME NEW x \in Sessions, Chain(x) PROVE Chain(x)'
  BY <1>1, <1>2, <1>5 DEF Chain, Of
<1>6. Chained'
  BY <1>1, <1>5 DEF Chained, Entering, Of
<1> QED
  BY <1>3, <1>4, <1>6

LEMMA WriteEndsIInv == ASSUME IInv, NEW s \in Sessions, WriteEnds(s) PROVE IInv'
<1> USE DEF IInv
<1> DEFINE h == [kind |-> "write", session |-> s, ok |-> s \notin lost]
<1>1. /\ writing' = writing \ {s}
      /\ ready' = ready \cup {h}
      /\ UNCHANGED <<accepting, made, lost, reading, handler, pc, sessions, sending,
                     raced, overtaken>>
  BY DEF WriteEnds, Done, logic
<1>2. h \in Handlers
  BY DEF Handlers, Kinds
<1>3. Shapes'
  BY <1>1, <1>2 DEF Shapes
<1>4. InHandler'
  BY <1>1 DEF InHandler
<1>5. Chained'
  BY <1>1 DEF Chained, Chain, Entering, Of
<1> QED
  BY <1>3, <1>4, <1>5

-----------------------------------------------------------------------------
(* The threads of the pool.                                                 *)

LEMMA GotoFacts ==
  ASSUME Shapes, NEW t \in Threads, NEW place \in Places, Goto(t, place)
  PROVE  /\ pc' \in [Threads -> Places] /\ pc'[t] = place
         /\ \A u \in Threads : u # t => pc'[u] = pc[u]
  BY DEF Shapes, Goto

LEMMA ReturnFacts ==
  ASSUME Shapes, NEW t \in Threads, Return(t)
  PROVE  /\ pc' \in [Threads -> Places] /\ pc'[t] = "idle"
         /\ handler' \in [Threads -> Handlers \cup {None}] /\ handler'[t] = None
         /\ \A u \in Threads : u # t => pc'[u] = pc[u] /\ handler'[u] = handler[u]
<1>1. "idle" \in Places
  BY DEF Places
<1>2. Goto(t, "idle")
  BY DEF Return
<1>3. handler' = [handler EXCEPT ![t] = None] /\ handler \in [Threads -> Handlers \cup {None}]
  BY DEF Return, Shapes
<1>4. handler' \in [Threads -> Handlers \cup {None}] /\ handler'[t] = None
  BY <1>3
<1>5. \A u \in Threads : u # t => handler'[u] = handler[u]
  BY <1>3
<1> QED
  BY <1>1, <1>2, <1>4, <1>5, GotoFacts

\* A thread that is not idle has a handler, of a session.
LEMMA BusyThread == ASSUME ServerAssumption, Shapes, InHandler, NEW t \in Threads, pc[t] # "idle"
                    PROVE  handler[t] \in Handlers /\ handler[t] # None /\ Of(t) \in Sessions
  BY NoneIsNoHandler DEF Shapes, InHandler, Of, Handlers

LEMMA RunIInv == ASSUME ServerAssumption, IInv, NEW t \in Threads, NEW h \in Handlers, Run(t, h)
                 PROVE  IInv'
<1> USE DEF IInv
<1> DEFINE place == IF h.kind # "accept" THEN "handle" ELSE IF h.ok THEN "start" ELSE "rearm"
<1>1. /\ pc[t] = "idle" /\ h \in ready
      /\ ready' = ready \ {h}
      /\ handler' = [handler EXCEPT ![t] = h]
      /\ Goto(t, place)
      /\ UNCHANGED <<accepting, made, lost, reading, writing, sessions, sending,
                     raced, overtaken>>
  BY DEF Run, logic
<1>2. place \in Places /\ h # None
  BY NoneIsNoHandler DEF Places
<1>3. /\ pc' \in [Threads -> Places] /\ pc'[t] = place
      /\ \A u \in Threads : u # t => pc'[u] = pc[u]
  <2> HIDE DEF place
  <2> QED
    BY <1>1, <1>2, GotoFacts
<1>4. /\ handler' \in [Threads -> Handlers \cup {None}] /\ handler'[t] = h
      /\ \A u \in Threads : u # t => handler'[u] = handler[u]
  BY <1>1 DEF Shapes
<1>5. handler[t] = None
  BY <1>1 DEF InHandler
<1>6. Shapes'
  BY <1>1, <1>3, <1>4 DEF Shapes
<1>7. InHandler'
  <2>1. ASSUME NEW u \in Threads, u # t
        PROVE  pc'[u] = pc[u] /\ handler'[u] = handler[u]
    BY <1>3, <1>4, <2>1
  <2>2. h.kind \in Kinds
    BY DEF Handlers
  <2>3. /\ pc'[t] # "idle" /\ handler'[t] # None
        /\ pc'[t] \in {"start", "insert", "inserting", "rearm"} => handler'[t].kind = "accept"
        /\ pc'[t] \in {"handle", "erase", "erasing"} => handler'[t].kind \in {"read", "write"}
    BY <1>2, <1>3, <1>4, <2>2 DEF Kinds
  <2> QED
    BY <2>1, <2>3 DEF InHandler
<1>8. ASSUME NEW x \in Sessions, Chain(x) PROVE Chain(x)'
  <2>1. CASE x \in reading
    BY <1>1, <2>1 DEF Chain
  <2>2. ASSUME NEW g \in ready, g.kind = "read", g.session = x PROVE Chain(x)'
    <3>1. CASE g = h
      BY <1>2, <1>4, <2>2, <3>1 DEF Chain, Of
    <3>2. CASE g # h
      BY <1>1, <2>2, <3>2 DEF Chain
    <3> QED
      BY <3>1, <3>2
  <2>3. ASSUME NEW u \in Threads, handler[u] # None, handler[u].kind = "read", Of(u) = x
        PROVE  Chain(x)'
    BY <1>4, <1>5, <2>3 DEF Chain, Of
  <2> QED
    BY <1>8, <2>1, <2>2, <2>3 DEF Chain
<1>9. ASSUME NEW x \in Sessions, Entering(x)' PROVE Entering(x)
  <2>1. pc'[t] \notin {"insert", "inserting"}
    BY <1>3
  <2> QED
    BY <1>3, <1>4, <1>9, <2>1 DEF Entering, Of
<1>10. Chained'
  BY <1>1, <1>8, <1>9 DEF Chained
<1> QED
  BY <1>6, <1>7, <1>10

\* A step that moves a thread inside its handler.
LEMMA MoveFacts ==
  ASSUME IInv, NEW t \in Threads, NEW place \in Places \ {"idle"},
         pc[t] # "idle", Goto(t, place), UNCHANGED <<handler, ready>>,
         reading \subseteq reading',
         place \in {"start", "insert", "inserting", "rearm"} => handler[t].kind = "accept",
         place \in {"handle", "erase", "erasing"} => handler[t].kind \in {"read", "write"}
  PROVE  /\ pc' \in [Threads -> Places] /\ pc'[t] = place
         /\ \A u \in Threads : u # t => pc'[u] = pc[u]
         /\ InHandler'
         /\ \A x \in Sessions : Chain(x) => Chain(x)'
<1>1. /\ pc' \in [Threads -> Places] /\ pc'[t] = place
      /\ \A u \in Threads : u # t => pc'[u] = pc[u]
  BY GotoFacts DEF IInv
<1>2. handler[t] # None
  BY DEF IInv, InHandler
<1>3. InHandler'
  BY <1>1, <1>2 DEF IInv, InHandler
<1>4. \A x \in Sessions : Chain(x) => Chain(x)'
  BY DEF Chain, Of
<1> QED
  BY <1>1, <1>3, <1>4

\* The read is in progress before the session is on its way into the map.
LEMMA StartIInv == ASSUME ServerAssumption, IInv, NEW t \in Threads, Start(t) PROVE IInv'
<1> USE DEF IInv
<1>1. /\ pc[t] = "start" /\ handler[t].kind = "accept" /\ Of(t) \in Sessions
      /\ reading' = reading \cup {Of(t)}
      /\ Goto(t, "insert")
      /\ UNCHANGED <<accepting, made, lost, writing, ready, handler, sessions, sending,
                     raced, overtaken>>
  BY BusyThread DEF Start, logic, InHandler
<1>2. "insert" \in Places \ {"idle"}
  BY DEF Places
<1>3. /\ pc' \in [Threads -> Places] /\ pc'[t] = "insert"
      /\ \A u \in Threads : u # t => pc'[u] = pc[u]
      /\ InHandler'
      /\ \A x \in Sessions : Chain(x) => Chain(x)'
  BY <1>1, <1>2, MoveFacts
<1>4. Shapes'
  BY <1>1, <1>3 DEF Shapes
<1>5. Chain(Of(t))'
  BY <1>1 DEF Chain, Of
<1>6. ASSUME NEW x \in Sessions, x # Of(t), Entering(x)' PROVE Entering(x)
  BY <1>1, <1>3, <1>6 DEF Entering, Of
<1>7. Chained'
  <2> SUFFICES ASSUME NEW x \in Sessions, (x \in sessions \/ Entering(x))'
               PROVE  (Chain(x) \/ x \in overtaken \/ raced)'
    BY DEF Chained
  <2>1. CASE x = Of(t)
    <3>1. Of(t)' = Of(t)
      BY <1>1 DEF Of
    <3> QED
      BY <1>5, <2>1, <3>1 DEF Chain, Of
  <2>2. CASE x # Of(t)
    BY <1>1, <1>3, <1>6, <2>2 DEF Chained
  <2> QED
    BY <2>1, <2>2
<1> QED
  BY <1>3, <1>4, <1>7

LEMMA EnterMapIInv == ASSUME ServerAssumption, IInv, NEW t \in Threads, EnterMap(t)
                      PROVE  IInv'
<1> USE DEF IInv
<1> DEFINE place == IF pc[t] = "insert" THEN "inserting" ELSE "erasing"
<1>1. /\ pc[t] \in {"insert", "erase"} /\ Goto(t, place)
      /\ raced' = (raced \/ \E u \in Threads \ {t} : InMap(u))
      /\ UNCHANGED <<accepting, made, lost, reading, writing, ready, handler, sessions,
                     sending, overtaken>>
  BY DEF EnterMap, io, logic
<1>2. /\ place \in Places \ {"idle"}
      /\ place \in {"start", "insert", "inserting", "rearm"} => handler[t].kind = "accept"
      /\ place \in {"handle", "erase", "erasing"} => handler[t].kind \in {"read", "write"}
  BY <1>1 DEF Places, InHandler
<1>3. /\ pc' \in [Threads -> Places] /\ pc'[t] = place
      /\ \A u \in Threads : u # t => pc'[u] = pc[u]
      /\ InHandler'
      /\ \A x \in Sessions : Chain(x) => Chain(x)'
  <2> HIDE DEF place
  <2> QED
    BY <1>1, <1>2, MoveFacts
<1>4. raced' \in BOOLEAN /\ (raced => raced')
  BY <1>1
<1>5. Shapes'
  BY <1>1, <1>3, <1>4 DEF Shapes
<1>6. ASSUME NEW x \in Sessions, Entering(x)' PROVE Entering(x)
  BY <1>1, <1>3, <1>6 DEF Entering, Of
<1>7. Chained'
  BY <1>1, <1>3, <1>4, <1>6 DEF Chained
<1> QED
  BY <1>3, <1>5, <1>7

LEMMA InsertIInv == ASSUME ServerAssumption, IInv, NEW t \in Threads, Insert(t)
                    PROVE  IInv'
<1> USE DEF IInv
<1>1. /\ pc[t] = "inserting" /\ handler[t].kind = "accept" /\ Of(t) \in Sessions
      /\ sessions' = sessions \cup {Of(t)} \/ sessions' = sessions
      /\ Goto(t, "rearm")
      /\ UNCHANGED <<accepting, made, lost, reading, writing, ready, handler, sending,
                     raced, overtaken>>
  BY BusyThread DEF Insert, Effect, io, logic, InHandler
<1>2. "rearm" \in Places \ {"idle"}
  BY DEF Places
<1>3. /\ pc' \in [Threads -> Places] /\ pc'[t] = "rearm"
      /\ \A u \in Threads : u # t => pc'[u] = pc[u]
      /\ InHandler'
      /\ \A x \in Sessions : Chain(x) => Chain(x)'
  BY <1>1, <1>2, MoveFacts
<1>4. Shapes'
  BY <1>1, <1>3 DEF Shapes
<1>5. ASSUME NEW x \in Sessions, (x \in sessions \/ Entering(x))'
      PROVE  x \in sessions \/ Entering(x)
  BY <1>1, <1>3, <1>5 DEF Entering, Of
<1>6. Chained'
  BY <1>1, <1>3, <1>5 DEF Chained
<1> QED
  BY <1>3, <1>4, <1>6

\* The handler of t returns: the threads that remain are where they were.
LEMMA ReturnKeeps ==
  ASSUME IInv, NEW t \in Threads, pc[t] # "idle", Return(t)
  PROVE  /\ pc' \in [Threads -> Places]
         /\ handler' \in [Threads -> Handlers \cup {None}]
         /\ InHandler'
         /\ \A x \in Sessions : Entering(x)' => Entering(x)
<1>1. /\ pc' \in [Threads -> Places] /\ pc'[t] = "idle"
      /\ handler' \in [Threads -> Handlers \cup {None}] /\ handler'[t] = None
      /\ \A u \in Threads : u # t => pc'[u] = pc[u] /\ handler'[u] = handler[u]
  BY ReturnFacts DEF IInv
<1>2. InHandler'
  BY <1>1 DEF IInv, InHandler
<1>3. ASSUME NEW x \in Sessions, Entering(x)' PROVE Entering(x)
  BY <1>1, <1>3 DEF Entering, Of
<1> QED
  BY <1>1, <1>2, <1>3

\* The chain of a session survives the return of a handler that was none of its
\* reads, or that has started the next one.
LEMMA ReturnChain ==
  ASSUME IInv, NEW t \in Threads, Return(t), ready' = ready, reading \subseteq reading',
         NEW x \in Sessions, Chain(x),
         handler[t].kind # "read" \/ Of(t) # x \/ Of(t) \in reading'
  PROVE  Chain(x)'
<1>1. \A u \in Threads : u # t => handler'[u] = handler[u]
  BY ReturnFacts DEF IInv
<1>2. CASE x \in reading
  BY <1>2 DEF Chain
<1>3. CASE \E h \in ready : h.kind = "read" /\ h.session = x
  BY <1>3 DEF Chain
<1>4. ASSUME NEW u \in Threads, handler[u] # None, handler[u].kind = "read", Of(u) = x
      PROVE  Chain(x)'
  <2>1. CASE u = t
    BY <1>4, <2>1 DEF Chain
  <2>2. CASE u # t
    BY <1>1, <1>4, <2>2 DEF Chain, Of
  <2> QED
    BY <2>1, <2>2
<1> QED
  BY <1>2, <1>3, <1>4 DEF Chain

LEMMA RearmIInv == ASSUME ServerAssumption, IInv, NEW t \in Threads, Rearm(t) PROVE IInv'
<1> USE DEF IInv
<1>1. /\ pc[t] = "rearm" /\ handler[t].kind = "accept" /\ Return(t) /\ MakeSession
      /\ UNCHANGED <<lost, reading, writing, ready, sessions, sending, raced, overtaken>>
  BY DEF Rearm, InHandler, logic
<1>2. /\ pc' \in [Threads -> Places]
      /\ handler' \in [Threads -> Handlers \cup {None}]
      /\ InHandler'
      /\ \A x \in Sessions : Entering(x)' => Entering(x)
  BY <1>1, ReturnKeeps
<1>3. accepting' \in Sessions \cup {None} /\ made' \subseteq Sessions
  <2>1. CASE made # Sessions
    <3>1. NextSession \in Sessions
      BY <2>1 DEF NextSession, Shapes
    <3> QED
      BY <1>1, <2>1, <3>1 DEF MakeSession, Shapes
  <2>2. CASE made = Sessions
    BY <1>1, <2>2 DEF MakeSession, Shapes
  <2> QED
    BY <2>1, <2>2
<1>4. Shapes'
  BY <1>1, <1>2, <1>3 DEF Shapes
<1>5. \A x \in Sessions : Chain(x) => Chain(x)'
  BY <1>1, ReturnChain
<1>6. Chained'
  BY <1>1, <1>2, <1>5 DEF Chained
<1> QED
  BY <1>2, <1>4, <1>6

\* The handler of a read that reads on.
LEMMA ReadOnIInv == ASSUME ServerAssumption, IInv, NEW t \in Threads, HandleRead(t) \/ HandleReadPart(t)
                    PROVE  IInv'
<1> USE DEF IInv
<1>1. /\ pc[t] = "handle" /\ Of(t) \in Sessions /\ Return(t)
      /\ reading' = reading \cup {Of(t)}
      /\ UNCHANGED <<accepting, made, lost, writing, ready, sessions, sending,
                     raced, overtaken>>
  BY BusyThread DEF HandleRead, HandleReadPart, Handles, logic
<1>2. /\ pc' \in [Threads -> Places]
      /\ handler' \in [Threads -> Handlers \cup {None}]
      /\ InHandler'
      /\ \A x \in Sessions : Entering(x)' => Entering(x)
  BY <1>1, ReturnKeeps
<1>3. Shapes'
  BY <1>1, <1>2 DEF Shapes
<1>4. \A x \in Sessions : Chain(x) => Chain(x)'
  BY <1>1, ReturnChain
<1>5. Chained'
  BY <1>1, <1>2, <1>4 DEF Chained
<1> QED
  BY <1>2, <1>3, <1>5

LEMMA HandleWriteIInv == ASSUME ServerAssumption, IInv, NEW t \in Threads, HandleWrite(t)
                         PROVE  IInv'
<1> USE DEF IInv
<1>1. /\ pc[t] = "handle" /\ handler[t].kind = "write" /\ Of(t) \in Sessions /\ Return(t)
      /\ writing' = writing \cup {Of(t)} \/ writing' = writing
      /\ UNCHANGED <<accepting, made, lost, reading, ready, sessions, sending,
                     raced, overtaken>>
  BY BusyThread DEF HandleWrite, Handles
<1>2. /\ pc' \in [Threads -> Places]
      /\ handler' \in [Threads -> Handlers \cup {None}]
      /\ InHandler'
      /\ \A x \in Sessions : Entering(x)' => Entering(x)
  BY <1>1, ReturnKeeps
<1>3. Shapes'
  BY <1>1, <1>2 DEF Shapes
<1>4. \A x \in Sessions : Chain(x) => Chain(x)'
  BY <1>1, ReturnChain
<1>5. Chained'
  BY <1>1, <1>2, <1>4 DEF Chained
<1> QED
  BY <1>2, <1>3, <1>5

\* An error, or a header that is refused: the session is going to be erased.
LEMMA ToEraseIInv ==
  ASSUME IInv, NEW t \in Threads,
         HandleReadRefused(t) \/ HandleReadError(t) \/ HandleWriteError(t)
  PROVE  IInv'
<1> USE DEF IInv
<1>1. /\ pc[t] = "handle" /\ handler[t].kind \in {"read", "write"}
      /\ Goto(t, "erase")
      /\ UNCHANGED <<accepting, made, lost, reading, writing, ready, handler, sessions,
                     sending, raced, overtaken>>
  BY DEF HandleReadRefused, HandleReadError, HandleWriteError, Handles, io, logic
<1>2. "erase" \in Places \ {"idle"}
  BY DEF Places
<1>3. /\ pc' \in [Threads -> Places] /\ pc'[t] = "erase"
      /\ \A u \in Threads : u # t => pc'[u] = pc[u]
      /\ InHandler'
      /\ \A x \in Sessions : Chain(x) => Chain(x)'
  BY <1>1, <1>2, MoveFacts
<1>4. Shapes'
  BY <1>1, <1>3 DEF Shapes
<1>5. ASSUME NEW x \in Sessions, Entering(x)' PROVE Entering(x)
  BY <1>1, <1>3, <1>5 DEF Entering, Of
<1>6. Chained'
  BY <1>1, <1>3, <1>5 DEF Chained
<1> QED
  BY <1>3, <1>4, <1>6

\* The chain may end here, for a session that leaves the map or was overtaken.
LEMMA EraseIInv == ASSUME ServerAssumption, IInv, NEW t \in Threads, Erase(t) PROVE IInv'
<1> USE DEF IInv
<1>1. /\ pc[t] = "erasing" /\ Of(t) \in Sessions /\ Return(t)
      /\ sessions' = sessions \ {Of(t)} \/ (raced /\ sessions' = sessions)
      /\ overtaken' = (IF Entering(Of(t)) THEN overtaken \cup {Of(t)} ELSE overtaken)
      /\ UNCHANGED <<accepting, made, lost, reading, writing, ready, sending, raced>>
  BY BusyThread DEF Erase, Effect, io, logic
<1>2. /\ pc' \in [Threads -> Places]
      /\ handler' \in [Threads -> Handlers \cup {None}]
      /\ InHandler'
      /\ \A x \in Sessions : Entering(x)' => Entering(x)
  BY <1>1, ReturnKeeps
<1>3. Shapes'
  BY <1>1, <1>2 DEF Shapes
<1>4. \A x \in Sessions : Chain(x) /\ x # Of(t) => Chain(x)'
  BY <1>1, ReturnChain
<1>5. Chained'
  <2> SUFFICES ASSUME NEW x \in Sessions, (x \in sessions \/ Entering(x))', ~raced
               PROVE  Chain(x)' \/ x \in overtaken'
    BY <1>1 DEF Chained
  <2>1. CASE x = Of(t)
    <3>1. Entering(Of(t))
      BY <1>1, <1>2, <2>1
    <3> QED
      BY <1>1, <2>1, <3>1
  <2>2. CASE x # Of(t)
    BY <1>1, <1>2, <1>4, <2>2 DEF Chained
  <2> QED
    BY <2>1, <2>2
<1> QED
  BY <1>2, <1>3, <1>5

-----------------------------------------------------------------------------
(* The worker touches no read and no handler.                               *)

LEMMA WorkerIInv == ASSUME IInv, Worker PROVE IInv'
<1> USE DEF IInv
<1>1. /\ sending' \in Sessions \cup {None} /\ writing' \subseteq Sessions
      /\ UNCHANGED <<accepting, made, lost, reading, ready, handler, pc, sessions,
                     raced, overtaken>>
  BY DEF Worker, SkipNode, SendBegin, SendEnd, Shapes, io
<1>2. Shapes'
  BY <1>1 DEF Shapes
<1>3. InHandler' /\ Chained'
  BY <1>1 DEF InHandler, Chained, Chain, Entering, Of
<1> QED
  BY <1>2, <1>3

LEMMA NextIInv == ASSUME ServerAssumption PROVE IInv /\ [Next]_vars => IInv'
<1> SUFFICES ASSUME IInv, [Next]_vars
             PROVE  IInv'
  OBVIOUS
<1>1. ASSUME NEW ok \in BOOLEAN, AcceptEnds(ok) PROVE IInv'
  BY <1>1, AcceptEndsIInv
<1>2. ASSUME NEW s \in Sessions, Lose(s) \/ ReadEnds(s) \/ WriteEnds(s) PROVE IInv'
  BY <1>2, LoseIInv, ReadEndsIInv, WriteEndsIInv
<1>3. ASSUME NEW t \in Threads, NEW h \in Handlers, Run(t, h) PROVE IInv'
  BY <1>3, RunIInv
<1>4. ASSUME NEW t \in Threads, Handler(t) PROVE IInv'
  BY <1>4, StartIInv, EnterMapIInv, InsertIInv, RearmIInv, ReadOnIInv, HandleWriteIInv,
     ToEraseIInv, EraseIInv DEF Handler
<1>5. CASE Worker
  BY <1>5, WorkerIInv
<1>6. CASE UNCHANGED vars
  BY <1>6 DEF vars, io, logic, IInv, Shapes, InHandler, Chained, Chain, Entering, Of
<1> QED
  BY <1>1, <1>2, <1>3, <1>4, <1>5, <1>6 DEF Next

LEMMA Invariant == ASSUME ServerAssumption PROVE Spec => []IInv
  BY InitIInv, NextIInv, PTL DEF Spec

-----------------------------------------------------------------------------
(* What follows for the map.                                                *)

\* A dead session is kept in the map only by the race of Server.cpp:26-27, or by
\* two threads having met in the map.
THEOREM Zombies == ASSUME ServerAssumption
                   PROVE  Spec => []ZombieOnlyIfOvertaken
<1>1. IInv => ZombieOnlyIfOvertaken
  <2> SUFFICES ASSUME IInv, NEW s \in sessions, s \notin overtaken, ~raced
               PROVE  Busy(s)
    BY DEF ZombieOnlyIfOvertaken
  <2>1. Chain(s)
    BY DEF IInv, Shapes, Chained
  <2> QED
    BY <2>1 DEF Chain, Busy
<1> QED
  BY <1>1, Invariant, PTL

\* With one thread, as in IOThreadPool(1), neither can happen: no dead session is
\* ever kept.
THEOREM OneThreadNoZombie == ASSUME ServerAssumption, \A t, u \in Threads : t = u
                             PROVE  Spec => []NoZombie
<1> DEFINE Calm == ~raced /\ overtaken = {}
<1>1. Init => Calm
  BY DEF Init
<1>2. IInv /\ Calm /\ [Next]_vars => Calm'
  <2> SUFFICES ASSUME IInv, Calm, [Next]_vars
               PROVE  Calm'
    OBVIOUS
  <2>1. ASSUME NEW t \in Threads, EnterMap(t) PROVE Calm'
    BY <2>1 DEF EnterMap
  <2>2. ASSUME NEW t \in Threads, Erase(t) PROVE Calm'
    <3>1. ~Entering(Of(t))
      BY <2>2 DEF Entering, Erase
    <3> QED
      BY <2>2, <3>1 DEF Erase
  <2>3. ASSUME NEW t \in Threads,
               Start(t) \/ Insert(t) \/ Rearm(t) \/ HandleRead(t) \/ HandleReadPart(t)
                 \/ HandleReadRefused(t) \/ HandleReadError(t) \/ HandleWrite(t)
                 \/ HandleWriteError(t)
        PROVE  Calm'
    <3>1. UNCHANGED <<raced, overtaken>>
      <4>1. CASE Start(t) \/ Insert(t) \/ Rearm(t)
        BY <4>1 DEF Start, Insert, Rearm
      <4>2. CASE HandleRead(t) \/ HandleReadPart(t) \/ HandleReadRefused(t)
                   \/ HandleReadError(t)
        BY <4>2 DEF HandleRead, HandleReadPart, HandleReadRefused, HandleReadError
      <4>3. CASE HandleWrite(t) \/ HandleWriteError(t)
        BY <4>3 DEF HandleWrite, HandleWriteError
      <4> QED
        BY <2>3, <4>1, <4>2, <4>3
    <3> QED
      BY <3>1
  <2>4. ASSUME NEW t \in Threads, NEW h \in Handlers, Run(t, h) PROVE Calm'
    BY <2>4 DEF Run
  <2>5. ASSUME NEW ok \in BOOLEAN, AcceptEnds(ok) PROVE Calm'
    BY <2>5 DEF AcceptEnds
  <2>6. ASSUME NEW s \in Sessions, Lose(s) \/ ReadEnds(s) \/ WriteEnds(s) PROVE Calm'
    BY <2>6 DEF Lose, ReadEnds, WriteEnds
  <2>7. CASE Worker
    BY <2>7 DEF Worker, SkipNode, SendBegin, SendEnd
  <2>8. CASE UNCHANGED vars
    BY <2>8 DEF vars
  <2> QED
    BY <2>1, <2>2, <2>3, <2>4, <2>5, <2>6, <2>7, <2>8 DEF Next, Handler
<1>3. Calm /\ ZombieOnlyIfOvertaken => NoZombie
  BY DEF ZombieOnlyIfOvertaken, NoZombie
<1> QED
  BY <1>1, <1>2, <1>3, Invariant, Zombies, PTL DEF Spec

-----------------------------------------------------------------------------
(* Accepting.                                                               *)

\* Only the handler of an accept can end the accepting, and start_accept is its
\* last call whatever has happened before.
THEOREM Accepting == ASSUME ServerAssumption PROVE Spec => []AlwaysAccepting
<1>1. Init => AlwaysAccepting
  <2> SUFFICES ASSUME Init PROVE accepting # None
    BY DEF AlwaysAccepting
  <2> QED
    BY ServerAssumption DEF ServerAssumption, Init, First
<1>2. IInv /\ AlwaysAccepting /\ [Next]_vars => AlwaysAccepting'
  <2> SUFFICES ASSUME IInv, AlwaysAccepting, [Next]_vars
               PROVE  AlwaysAccepting'
    OBVIOUS
  <2>1. ASSUME NEW ok \in BOOLEAN, AcceptEnds(ok) PROVE AlwaysAccepting'
    <3>1. [kind |-> "accept", session |-> accepting, ok |-> ok] \in ready'
      BY <2>1 DEF AcceptEnds, Done
    <3>2. \E h \in ready' : h.kind = "accept"
      BY <3>1
    <3> QED
      BY <3>2 DEF AlwaysAccepting
  <2>2. ASSUME NEW s \in Sessions, Lose(s) \/ ReadEnds(s) \/ WriteEnds(s)
        PROVE  AlwaysAccepting'
    BY <2>2 DEF Lose, ReadEnds, WriteEnds, Done, AlwaysAccepting
  <2>3. ASSUME NEW t \in Threads, NEW h \in Handlers, Run(t, h) PROVE AlwaysAccepting'
    <3>1. /\ ready' = ready \ {h} /\ h # None /\ handler[t] = None
          /\ handler'[t] = h /\ \A u \in Threads : u # t => handler'[u] = handler[u]
          /\ UNCHANGED <<accepting, made>>
      BY <2>3, NoneIsNoHandler DEF Run, IInv, Shapes, InHandler
    <3> QED
      BY <3>1 DEF AlwaysAccepting
  <2>4. ASSUME NEW t \in Threads, Rearm(t) PROVE AlwaysAccepting'
    <3>1. CASE made = Sessions
      BY <2>4, <3>1 DEF Rearm, MakeSession, AlwaysAccepting
    <3>2. CASE made # Sessions
      <4>1. NextSession # None
        BY <3>2, ServerAssumption DEF ServerAssumption, NextSession, IInv, Shapes
      <4> QED
        BY <2>4, <3>2, <4>1 DEF Rearm, MakeSession, AlwaysAccepting
    <3> QED
      BY <3>1, <3>2
  <2>5. ASSUME NEW t \in Threads,
               HandleRead(t) \/ HandleReadPart(t) \/ HandleWrite(t) \/ Erase(t)
        PROVE  AlwaysAccepting'
    <3>1. /\ Return(t) /\ handler[t].kind # "accept"
          /\ UNCHANGED <<accepting, made, ready>>
      BY <2>5 DEF HandleRead, HandleReadPart, HandleWrite, Erase, Handles, IInv, InHandler, io
    <3>2. \A u \in Threads : u # t => handler'[u] = handler[u]
      BY <3>1, ReturnFacts DEF IInv
    <3> QED
      BY <3>1, <3>2 DEF AlwaysAccepting
  <2>6. ASSUME NEW t \in Threads,
               Start(t) \/ EnterMap(t) \/ Insert(t) \/ HandleReadRefused(t)
                 \/ HandleReadError(t) \/ HandleWriteError(t)
        PROVE  AlwaysAccepting'
    <3>1. UNCHANGED <<accepting, made, ready, handler>>
      BY <2>6 DEF Start, EnterMap, Insert, HandleReadRefused, HandleReadError,
                  HandleWriteError, io
    <3> QED
      BY <3>1 DEF AlwaysAccepting
  <2>7. CASE Worker \/ UNCHANGED vars
    <3>1. UNCHANGED <<accepting, made, ready, handler>>
      BY <2>7 DEF Worker, SkipNode, SendBegin, SendEnd, vars, io
    <3> QED
      BY <3>1 DEF AlwaysAccepting
  <2> QED
    BY <2>1, <2>2, <2>3, <2>4, <2>5, <2>6, <2>7 DEF Next, Handler
<1> QED
  BY <1>1, <1>2, Invariant, PTL DEF Spec

-----------------------------------------------------------------------------
(* Counting: the requests of a session, its nodes and its queued replies.   *)

IsWrite(h, s) == h # None /\ h.kind = "write" /\ h.session = s

\* A session has one write at a time: in progress, ready or being handled; and the
\* message it writes is in the queue.
OneWrite ==
  \A s \in Sessions :
    /\ s \in writing => /\ queued[s] > 0
                        /\ \A h \in ready : ~IsWrite(h, s)
                        /\ \A t \in Threads : ~IsWrite(handler[t], s)
    /\ \A h \in ready : IsWrite(h, s) => /\ queued[s] > 0
                                         /\ \A g \in ready : IsWrite(g, s) => g = h
                                         /\ \A t \in Threads : ~IsWrite(handler[t], s)
    /\ \A t \in Threads : IsWrite(handler[t], s) =>
                            /\ queued[s] > 0
                            /\ \A u \in Threads : IsWrite(handler[u], s) => u = t

\* What was posted waits as a node, waits as a reply, or is gone.
Counts == /\ requests \in [Sessions -> 0..MaxRequests]
          /\ nodes \in [Sessions -> Nat]
          /\ queued \in [Sessions -> Nat]
          /\ \A s \in Sessions : nodes[s] + queued[s] <= requests[s]
          /\ sending # None => nodes[sending] > 0

CInv == OneWrite /\ Counts

LEMMA InitCInv == ASSUME ServerAssumption PROVE Init => CInv
<1> SUFFICES ASSUME Init PROVE CInv
  OBVIOUS
<1>1. OneWrite
  BY DEF Init, OneWrite, IsWrite
<1>2. Counts
  BY ServerAssumption DEF ServerAssumption, Init, Counts
<1> QED
  BY <1>1, <1>2 DEF CInv

\* A step that starts no write and brings no handler of one anywhere.
LEMMA WritesKept ==
  ASSUME OneWrite, queued' = queued, writing' = writing,
         \A h \in ready' : h.kind = "write" => h \in ready,
         \A t \in Threads : \/ handler'[t] = handler[t] \/ handler'[t] = None
                            \/ handler'[t].kind # "write"
  PROVE  OneWrite'
<1>1. ASSUME NEW s \in Sessions, NEW h \in ready', IsWrite(h, s) PROVE h \in ready
  BY <1>1 DEF IsWrite
<1>2. ASSUME NEW s \in Sessions, NEW t \in Threads, IsWrite(handler'[t], s)
      PROVE  IsWrite(handler[t], s)
  BY <1>2 DEF IsWrite
<1>3. ASSUME NEW s \in Sessions
      PROVE  /\ s \in writing => queued[s] > 0
             /\ \A h \in ready : IsWrite(h, s) => queued[s] > 0
             /\ \A t \in Threads : IsWrite(handler[t], s) => queued[s] > 0
  BY DEF OneWrite
<1> QED
  BY <1>1, <1>2, <1>3 DEF OneWrite

LEMMA WriteEndsCInv == ASSUME ServerAssumption, IInv, CInv, NEW s \in Sessions, WriteEnds(s)
                       PROVE  CInv'
<1> DEFINE h == [kind |-> "write", session |-> s, ok |-> s \notin lost]
<1>1. /\ s \in writing /\ writing' = writing \ {s}
      /\ ready' = ready \cup {h}
      /\ UNCHANGED <<handler, requests, nodes, sending, queued>>
  BY DEF WriteEnds, Done, logic
<1>2. \A x \in Sessions : IsWrite(h, x) <=> x = s
  <2>1. h # None /\ h.kind = "write" /\ h.session = s
    <3>1. h \in Handlers
      BY DEF Handlers, Kinds
    <3> QED
      BY <3>1, NoneIsNoHandler
  <2> HIDE DEF h
  <2> QED
    BY <2>1 DEF IsWrite
<1>3. OneWrite'
  <2> HIDE DEF h
  <2> QED
    BY <1>1, <1>2 DEF CInv, OneWrite
<1>4. Counts'
  BY <1>1 DEF CInv, Counts
<1> QED
  BY <1>3, <1>4 DEF CInv

LEMMA RunCInv == ASSUME ServerAssumption, IInv, CInv, NEW t \in Threads, NEW h \in Handlers, Run(t, h)
                 PROVE  CInv'
<1>1. /\ h \in ready /\ ready' = ready \ {h} /\ handler[t] = None
      /\ handler'[t] = h /\ \A u \in Threads : u # t => handler'[u] = handler[u]
      /\ UNCHANGED <<writing, requests, nodes, sending, queued>>
  BY DEF Run, IInv, Shapes, InHandler, logic
<1>2. ASSUME NEW x \in Sessions PROVE ~IsWrite(handler[t], x)
  BY <1>1 DEF IsWrite
<1>3. OneWrite'
  BY <1>1, <1>2 DEF CInv, OneWrite
<1>4. Counts'
  BY <1>1 DEF CInv, Counts
<1> QED
  BY <1>3, <1>4 DEF CInv

\* One message is written and leaves the queue; the next, if any, is being written.
LEMMA HandleWriteCInv == ASSUME ServerAssumption, IInv, CInv, NEW t \in Threads, HandleWrite(t)
                         PROVE  CInv'
<1> DEFINE s == Of(t)
<1>1. /\ s \in Sessions /\ IsWrite(handler[t], s)
      /\ \A x \in Sessions : IsWrite(handler[t], x) => x = s
  <2>1. pc[t] = "handle" /\ handler[t].kind = "write"
    BY DEF HandleWrite, Handles
  <2> QED
    BY <2>1, BusyThread DEF IInv, IsWrite, Of
<1>2. /\ queued' = [queued EXCEPT ![s] = @ - 1]
      /\ writing' = (IF queued'[s] > 0 THEN writing \cup {s} ELSE writing)
      /\ UNCHANGED <<ready, requests, nodes, sending>>
  BY DEF HandleWrite
<1>3. handler'[t] = None /\ \A u \in Threads : u # t => handler'[u] = handler[u]
  BY ReturnFacts DEF HandleWrite, IInv
<1> HIDE DEF s
<1>4. queued \in [Sessions -> Nat] /\ queued[s] > 0
  BY <1>1 DEF CInv, OneWrite, Counts
<1>5. /\ queued' \in [Sessions -> Nat]
      /\ queued'[s] = queued[s] - 1
      /\ \A x \in Sessions : x # s => queued'[x] = queued[x]
  BY <1>1, <1>2, <1>4
<1>6. Counts'
  <2>1. \A x \in Sessions : nodes[x] + queued'[x] <= requests[x]
    BY <1>4, <1>5 DEF CInv, Counts
  <2> QED
    BY <1>2, <1>5, <2>1 DEF CInv, Counts
<1>7. OneWrite'
  <2>1. ASSUME NEW x \in Sessions, x # s
        PROVE  /\ queued'[x] = queued[x] /\ (x \in writing' <=> x \in writing)
               /\ ~IsWrite(handler[t], x)
    BY <1>1, <1>2, <1>5, <2>1
  <2>2. /\ \A h \in ready : ~IsWrite(h, s)
        /\ \A u \in Threads : ~IsWrite(handler'[u], s)
        /\ s \notin writing
    <3>1. ~IsWrite(None, s)
      BY DEF IsWrite
    <3> QED
      BY <1>1, <1>3, <3>1 DEF CInv, OneWrite
  <2>3. \A x \in Sessions : ~IsWrite(None, x)
    BY DEF IsWrite
  <2>4. s \in writing' => queued'[s] > 0
    BY <1>2, <2>2
  <2> QED
    BY <1>2, <1>3, <2>1, <2>2, <2>3, <2>4 DEF CInv, OneWrite
<1> QED
  BY <1>6, <1>7 DEF CInv

\* One node less: it is popped by the worker, and does not become a reply.
LEMMA PopCInv ==
  ASSUME CInv, NEW s \in Sessions, nodes[s] > 0, nodes' = [nodes EXCEPT ![s] = @ - 1],
         sending' = None,
         UNCHANGED <<requests, queued, writing, ready, handler>>
  PROVE  CInv'
<1>1. OneWrite'
  BY WritesKept DEF CInv
<1>2. nodes \in [Sessions -> Nat]
  BY DEF CInv, Counts
<1>3. /\ nodes' \in [Sessions -> Nat] /\ nodes'[s] = nodes[s] - 1
      /\ \A x \in Sessions : x # s => nodes'[x] = nodes[x]
  BY <1>2
<1>4. ASSUME NEW x \in Sessions PROVE nodes'[x] + queued[x] <= requests[x]
  <2>1. /\ nodes[x] + queued[x] <= requests[x]
        /\ nodes[x] \in Nat /\ queued[x] \in Nat /\ requests[x] \in Nat
    BY <1>2 DEF CInv, Counts
  <2>2. CASE x = s
    BY <1>3, <2>1, <2>2
  <2>3. CASE x # s
    BY <1>3, <2>1, <2>3
  <2> QED
    BY <2>2, <2>3
<1> QED
  BY <1>1, <1>3, <1>4 DEF CInv, Counts

\* A reply that finds the queue empty finds no write either.
LEMMA PushCInv ==
  ASSUME IInv, CInv, SendEnd,
         queued' = [queued EXCEPT ![sending] = @ + 1],
         writing' = IF queued[sending] = 0 THEN writing \cup {sending} ELSE writing
  PROVE  CInv'
<1> DEFINE s == sending
<1>1. /\ s \in Sessions /\ nodes[s] > 0
      /\ nodes' = [nodes EXCEPT ![s] = @ - 1]
      /\ queued' = [queued EXCEPT ![s] = @ + 1]
      /\ writing' = (IF queued[s] = 0 THEN writing \cup {s} ELSE writing)
      /\ sending' = None
      /\ UNCHANGED <<ready, handler, requests>>
  BY DEF SendEnd, IInv, Shapes, CInv, Counts
<1> HIDE DEF s
<1>2. nodes \in [Sessions -> Nat] /\ queued \in [Sessions -> Nat]
  BY DEF CInv, Counts
<1>3. /\ nodes' \in [Sessions -> Nat] /\ queued' \in [Sessions -> Nat]
      /\ nodes'[s] = nodes[s] - 1 /\ queued'[s] = queued[s] + 1
      /\ \A x \in Sessions : x # s => nodes'[x] = nodes[x] /\ queued'[x] = queued[x]
  BY <1>1, <1>2
<1>4. Counts'
  <2>1. ASSUME NEW x \in Sessions PROVE nodes'[x] + queued'[x] <= requests[x]
    <3>1. nodes[x] + queued[x] <= requests[x] /\ nodes[x] \in Nat /\ queued[x] \in Nat
      BY <1>2 DEF CInv, Counts
    <3>2. CASE x = s
      BY <1>1, <1>3, <3>1, <3>2
    <3>3. CASE x # s
      BY <1>3, <3>1, <3>3
    <3> QED
      BY <3>2, <3>3
  <2> QED
    BY <1>1, <1>3, <2>1 DEF CInv, Counts
<1>5. OneWrite'
  <2>1. ASSUME NEW x \in Sessions, x # s
        PROVE  queued'[x] = queued[x] /\ (x \in writing' <=> x \in writing)
    BY <1>1, <1>3, <2>1
  <2>2. queued'[s] > 0
    BY <1>1, <1>2, <1>3
  <2>3. CASE queued[s] = 0
    <3>1. /\ s \notin writing
          /\ \A h \in ready : ~IsWrite(h, s)
          /\ \A t \in Threads : ~IsWrite(handler[t], s)
      BY <1>1, <2>3 DEF CInv, OneWrite
    <3> QED
      BY <1>1, <2>1, <2>2, <3>1 DEF CInv, OneWrite
  <2>4. CASE queued[s] # 0
    BY <1>1, <2>1, <2>2, <2>4 DEF CInv, OneWrite
  <2> QED
    BY <2>3, <2>4
<1> QED
  BY <1>4, <1>5 DEF CInv

LEMMA SendEndCInv == ASSUME IInv, CInv, SendEnd PROVE CInv'
<1>1. CASE UNCHANGED <<queued, writing>>
  <2>1. sending \in Sessions /\ nodes[sending] > 0
    BY DEF SendEnd, IInv, Shapes, CInv, Counts
  <2> QED
    BY <1>1, <2>1, PopCInv DEF SendEnd
<1>2. CASE /\ queued' = [queued EXCEPT ![sending] = @ + 1]
           /\ writing' = IF queued[sending] = 0 THEN writing \cup {sending} ELSE writing
  BY <1>2, PushCInv
<1> QED
  BY <1>1, <1>2 DEF SendEnd

LEMMA HandleReadCInv == ASSUME ServerAssumption, IInv, CInv, NEW t \in Threads, HandleRead(t)
                        PROVE  CInv'
<1> DEFINE s == Of(t)
<1>1. /\ s \in Sessions /\ requests[s] < MaxRequests
      /\ requests' = [requests EXCEPT ![s] = @ + 1]
      /\ nodes' = [nodes EXCEPT ![s] = @ + 1]
      /\ UNCHANGED <<writing, ready, sending, queued>>
  BY BusyThread DEF HandleRead, Handles, IInv
<1>2. handler'[t] = None /\ \A u \in Threads : u # t => handler'[u] = handler[u]
  BY ReturnFacts DEF HandleRead, IInv
<1> HIDE DEF s
<1>3. OneWrite'
  BY <1>1, <1>2, WritesKept DEF CInv
<1>4. /\ requests \in [Sessions -> 0..MaxRequests] /\ nodes \in [Sessions -> Nat]
      /\ queued \in [Sessions -> Nat]
  BY DEF CInv, Counts
<1>5. /\ requests' \in [Sessions -> 0..MaxRequests] /\ nodes' \in [Sessions -> Nat]
      /\ requests'[s] = requests[s] + 1 /\ nodes'[s] = nodes[s] + 1
      /\ \A x \in Sessions : x # s => nodes'[x] = nodes[x] /\ requests'[x] = requests[x]
  BY <1>1, <1>4, ServerAssumption DEF ServerAssumption
<1>6. ASSUME NEW x \in Sessions PROVE nodes'[x] + queued[x] <= requests'[x]
  <2>1. /\ nodes[x] + queued[x] <= requests[x]
        /\ nodes[x] \in Nat /\ queued[x] \in Nat /\ requests[x] \in Nat
    BY <1>4 DEF CInv, Counts
  <2>2. CASE x = s
    BY <1>5, <2>1, <2>2
  <2>3. CASE x # s
    BY <1>5, <2>1, <2>3
  <2> QED
    BY <2>2, <2>3
<1>7. sending # None => nodes'[sending] > 0
  <2> SUFFICES ASSUME sending # None PROVE nodes'[sending] > 0
    OBVIOUS
  <2>1. sending \in Sessions /\ nodes[sending] > 0 /\ nodes[sending] \in Nat
    BY <1>4 DEF IInv, Shapes, CInv, Counts
  <2> QED
    BY <1>5, <2>1
<1> QED
  BY <1>1, <1>3, <1>4, <1>5, <1>6, <1>7 DEF CInv, Counts

LEMMA NextCInv == ASSUME ServerAssumption
                  PROVE  IInv /\ CInv /\ [Next]_vars => CInv'
<1> SUFFICES ASSUME IInv, CInv, [Next]_vars
             PROVE  CInv'
  OBVIOUS
<1>1. ASSUME UNCHANGED <<requests, nodes, sending, queued, writing>>,
             \A h \in ready' : h.kind = "write" => h \in ready,
             \A t \in Threads : handler'[t] = handler[t] \/ handler'[t] = None
      PROVE  CInv'
  <2>1. OneWrite'
    BY <1>1, WritesKept DEF CInv
  <2> QED
    BY <1>1, <2>1 DEF CInv, Counts
<1>2. ASSUME NEW ok \in BOOLEAN, AcceptEnds(ok) PROVE CInv'
  BY <1>1, <1>2 DEF AcceptEnds, Done, logic
<1>3. ASSUME NEW s \in Sessions, Lose(s) \/ ReadEnds(s) PROVE CInv'
  BY <1>1, <1>3 DEF Lose, ReadEnds, Done, logic
<1>4. ASSUME NEW s \in Sessions, WriteEnds(s) PROVE CInv'
  BY <1>4, WriteEndsCInv
<1>5. ASSUME NEW t \in Threads, NEW h \in Handlers, Run(t, h) PROVE CInv'
  BY <1>5, RunCInv
<1>6. ASSUME NEW t \in Threads, Rearm(t) \/ HandleReadPart(t) \/ Erase(t) PROVE CInv'
  <2>1. /\ Return(t)
        /\ UNCHANGED <<ready, requests, nodes, sending, queued, writing>>
    BY <1>6 DEF Rearm, HandleReadPart, Erase, io, logic
  <2>2. \A u \in Threads : handler'[u] = handler[u] \/ handler'[u] = None
    BY <2>1, ReturnFacts DEF IInv
  <2> QED
    BY <1>1, <2>1, <2>2
<1>7. ASSUME NEW t \in Threads,
             Start(t) \/ EnterMap(t) \/ Insert(t) \/ HandleReadRefused(t)
               \/ HandleReadError(t) \/ HandleWriteError(t)
      PROVE  CInv'
  <2>1. UNCHANGED <<ready, handler, requests, nodes, sending, queued, writing>>
    BY <1>7 DEF Start, EnterMap, Insert, HandleReadRefused, HandleReadError,
                HandleWriteError, io, logic
  <2> QED
    BY <1>1, <2>1
<1>8. ASSUME NEW s \in Sessions, SendBegin(s) PROVE CInv'
  <2>1. OneWrite'
    BY <1>8, WritesKept DEF CInv, SendBegin, io
  <2>2. Counts'
    BY <1>8 DEF CInv, Counts, SendBegin, io
  <2> QED
    BY <2>1, <2>2 DEF CInv
<1>9. ASSUME NEW s \in Sessions, SkipNode(s) PROVE CInv'
  <2>1. sending' = None
    BY <1>9 DEF SkipNode
  <2> QED
    BY <1>9, <2>1, PopCInv DEF SkipNode, io
<1>10. CASE UNCHANGED vars
  BY <1>1, <1>10 DEF vars, io, logic
<1> QED
  BY <1>2, <1>3, <1>4, <1>5, <1>6, <1>7, <1>8, <1>9, <1>10, HandleReadCInv, HandleWriteCInv,
     SendEndCInv DEF Next, Handler, Worker

\* Types, and that the counts of a session stay within what it has posted.
THEOREM Typing == ASSUME ServerAssumption PROVE Spec => []TypeOK
<1>1. IInv /\ CInv => TypeOK
  <2> SUFFICES ASSUME IInv, CInv PROVE TypeOK
    OBVIOUS
  <2>1. ASSUME NEW s \in Sessions PROVE nodes[s] \in 0..MaxRequests /\ queued[s] \in 0..MaxRequests
    BY ServerAssumption DEF ServerAssumption, CInv, Counts
  <2>2. nodes \in [Sessions -> 0..MaxRequests] /\ queued \in [Sessions -> 0..MaxRequests]
    BY <2>1 DEF CInv, Counts
  <2> QED
    BY <2>2 DEF IInv, Shapes, CInv, Counts, TypeOK
<1> QED
  BY <1>1, Invariant, InitCInv, NextCInv, PTL DEF Spec
=============================================================================
