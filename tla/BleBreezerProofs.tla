--------------------------- MODULE BleBreezerProofs ---------------------------
(***************************************************************************)
(* Proofs about the Bluetooth breezer, for any number of callers, keys and *)
(* values: its types and its lock, that a link nobody uses is watched,     *)
(* that no command takes the answer to an earlier request for its own, and *)
(* that no change is forgotten, nor shown when nobody will send it.        *)
(***************************************************************************)
EXTENDS BleBreezer, TLAPS

Asking == {"info", "state", "command"}
Steps == Resting \cup Working \cup {"lock"}
Frames == State \cup {None}
Messages == [type : {"info", "state"}, frame : Frames]
Requests == [future : {"none", "wait", "got", "broken"}, frame : Frames, taken : BOOLEAN]

\* What a task t may be doing.
Fits(t, s) ==
    /\ s \in {"connect", "notify"} => t \in Sends \cup {Poll}
    /\ s = "command" => t \in Sends
    /\ s \in {"info", "state"} => t = Poll

\* The invariant behind the others: whoever has the lock works, and only it has
\* a request; calls come after the state; a frame of the state's type holds one.
Shape ==
    /\ TypeOK
    /\ \A t \in Tasks : Fits(t, step[t])
    /\ lock.holder # None => step[lock.holder] \in Working
    /\ request.future # "none" => lock.holder # None /\ step[lock.holder] \in Asking
    /\ known = None => /\ \A t \in Sends : step[t] = "rest"
                       /\ \A i \in DOMAIN lock.queue : lock.queue[i] \notin Sends
    /\ \A i \in DOMAIN wire : wire[i].type = "state" => wire[i].frame \in State
    /\ (request.future = "got" /\ step[lock.holder] # "info") => request.frame \in State

\* What no task but t does before its step, and what t does after it.
Alone(t) == \A u \in Tasks \ {t} : step[u] \notin Working

Moved(t) ==
    /\ step' = [step EXCEPT ![t] = step'[t]]
    /\ step'[t] \in Steps /\ Fits(t, step'[t])
    /\ lock'.holder = IF step'[t] \in Working THEN t ELSE None
    /\ lock' \in [holder : Tasks \cup {None}, queue : Seq(Tasks)]
    /\ request' \in Requests
    /\ request'.future \in {"none", "wait"}
    /\ request'.future = "wait" => step'[t] \in Asking

-----------------------------------------------------------------------------
(* The helpers *)

LEMMA Values ==
  /\ NoRequest \in Requests /\ NewRequest \in Requests
  /\ Nothing \in Partial
  /\ \A g \in Partial, h \in Partial : Over(g, h) \in Partial
  /\ \A g \in Partial, h \in State : Over(g, h) \in State
  BY NamesAssumption DEF NoRequest, NewRequest, Requests, Frames, Nothing, Partial, Over, State

LEMMA Alones ==
  ASSUME Shape, NEW t \in Tasks, lock.holder \in {t, None}
  PROVE  Alone(t)
  BY NamesAssumption DEF Shape, TypeOK, Alone, Tasks

\* A task of the right kind moves to s, with the lock if s is work, and with a
\* request only if it asks.
LEMMA Moves ==
  ASSUME Shape, NEW t \in Tasks, NEW s \in Steps, NEW q \in Seq(Tasks), NEW r \in Requests,
         Goes(t, s), Fits(t, s), request' = r,
         r.future = "none" \/ (r.future = "wait" /\ s \in Asking),
         IF s \in Working THEN Takes(t, q) ELSE Frees(q)
  PROVE  Moved(t) /\ step'[t] = s
<1>1. step' = [step EXCEPT ![t] = s] /\ step'[t] = s
  BY DEF Shape, TypeOK, Goes, Steps
<1>2. lock'.holder = IF s \in Working THEN t ELSE None
  BY DEF Takes, Frees
<1>3. lock' \in [holder : Tasks \cup {None}, queue : Seq(Tasks)]
  BY DEF Takes, Frees
<1> QED BY <1>1, <1>2, <1>3 DEF Moved

LEMMA ConnectsMoves ==
  ASSUME Shape, NEW t \in Sends \cup {Poll}, NEW q \in Seq(Tasks),
         Connects(t), Takes(t, q)
  PROVE  Moved(t) /\ step'[t] \in {"connect", "info", "state", "command"}
<1>1. t \in Tasks /\ (t \in Sends <=> t # Poll)
  BY NamesAssumption DEF Tasks
<1>2. CASE Connected
  <2> DEFINE s == IF t # Poll THEN "command" ELSE IF informed THEN "state" ELSE "info"
  <2>1. Goes(t, s) /\ request' = NewRequest
    BY <1>2 DEF Connects, Asks
  <2>2. s \in {"info", "state", "command"} /\ Fits(t, s)
    BY <1>1 DEF Fits
  <2>3. NewRequest.future = "wait"
    BY DEF NewRequest
  <2> HIDE DEF s
  <2> QED BY <1>1, <2>1, <2>2, <2>3, Values, Moves DEF Steps, Working, Asking
<1>3. CASE ~Connected
  BY <1>1, <1>3, Values, Moves DEF Connects, Steps, Working, Fits, NoRequest
<1> QED BY <1>2, <1>3

LEMMA ReturnsMoves ==
  ASSUME Shape, NEW t \in Sends, NEW q \in Seq(Tasks), NEW p \in Partial,
         NEW w \in [Sends -> Partial], Returns(t, q, p, w)
  PROVE  /\ Moved(t) /\ step'[t] \in {"returned", "lock", "connect", "command"}
         /\ pending' \in Partial /\ sent' \in Partial
         /\ want' \in [Sends -> Partial] /\ again' \in [Sends -> BOOLEAN]
<1>1. t \in Tasks /\ NoRequest.future = "none" /\ Fits(t, "returned") /\ Fits(t, "lock")
  BY DEF Tasks, Fits, NoRequest
<1>2. CASE ~again[t]
  <2>1. Moved(t) /\ step'[t] = "returned"
    BY <1>1, <1>2, Values, Moves DEF Returns, Steps, Working, Resting
  <2> QED BY <1>2, <2>1 DEF Returns, Shape, TypeOK
<1>3. CASE again[t]
  <2>1. PICK g \in Changes : Sets(t, g, p, w)
    BY <1>3 DEF Returns
  <2>2. pending' \in Partial /\ want' \in [Sends -> Partial]
    BY <2>1, Values DEF Sets, Changes, Partial
  <2>3. again' \in [Sends -> BOOLEAN]
    BY <1>3 DEF Returns, Shape, TypeOK
  <2>4. CASE q = <<>>
    <3>1. Connects(t) /\ Takes(t, q) /\ sent' = pending'
      BY <1>3, <2>4 DEF Returns, Commands
    <3>2. Moved(t) /\ step'[t] \in {"connect", "info", "state", "command"}
      BY <3>1, ConnectsMoves
    <3> QED BY <2>2, <2>3, <3>1, <3>2, NamesAssumption DEF Moved, Fits
  <2>5. CASE q # <<>>
    <3>1. Append(q, t) \in Seq(Tasks)
      BY <1>1
    <3>2. Moved(t) /\ step'[t] = "lock"
      BY <1>1, <1>3, <2>5, <3>1, Values, Moves DEF Returns, Steps, Working, Resting
    <3> QED BY <1>3, <2>2, <2>3, <2>5, <3>2 DEF Returns, Shape, TypeOK
  <2> QED BY <2>4, <2>5
<1> QED BY <1>2, <1>3 DEF Shape, TypeOK

LEMMA DisconnectsMoves ==
  ASSUME Shape, NEW t \in Sends \cup {Poll}, step[t] \in Working, Disconnects(t)
  PROVE  /\ Moved(t) /\ step'[t] \in {"raised", "drop"}
         /\ client' = "none" /\ wire' = <<>> /\ timer' \in BOOLEAN
<1>1. t \in Tasks /\ NoRequest.future = "none" /\ Fits(t, "raised") /\ Fits(t, "drop")
  BY DEF Tasks, Fits, NoRequest
<1>2. lock.holder = t /\ lock.queue \in Seq(Tasks)
  BY <1>1 DEF Shape, TypeOK
<1>3. CASE client = "none"
  BY <1>1, <1>2, <1>3, Values, Moves
  DEF Disconnects, Forgets, Schedules, Steps, Working, Resting, Shape, TypeOK
<1>4. CASE client # "none"
  <2>1. Takes(t, lock.queue)
    BY <1>2, <1>4 DEF Disconnects, Takes, Shape, TypeOK
  <2> QED BY <1>1, <1>2, <1>4, <2>1, Values, Moves
          DEF Disconnects, Forgets, Steps, Working, Resting, Shape, TypeOK
<1> QED BY <1>3, <1>4

LEMMA DropsMoves ==
  ASSUME Shape, NEW t \in {Idle, Shutdown}, NEW q \in Seq(Tasks), Drops(t, q)
  PROVE  /\ Moved(t) /\ step'[t] \in {"returned", "drop"}
         /\ client' = "none" /\ wire' = <<>> /\ lock'.queue = q
<1>1. t \in Tasks /\ NoRequest.future = "none" /\ Fits(t, "returned") /\ Fits(t, "drop")
  BY DEF Tasks, Fits, NoRequest
<1>2. client' = "none" /\ wire' = <<>> /\ lock'.queue = q
  BY DEF Drops, Forgets, Frees, Takes
<1>3. CASE client = "none"
  BY <1>1, <1>2, <1>3, Values, Moves DEF Drops, Forgets, Steps, Working, Resting
<1>4. CASE client # "none"
  BY <1>1, <1>2, <1>4, Values, Moves DEF Drops, Forgets, Steps, Working, Resting
<1> QED BY <1>3, <1>4

-----------------------------------------------------------------------------
(* The shape is invariant *)

\* The types of what does not belong to the lock.
Data ==
    /\ device \in State /\ known \in Frames
    /\ client \in {"none", "bare", "up", "down"}
    /\ wire \in Seq(Messages)
    /\ closed \in BOOLEAN /\ timer \in BOOLEAN /\ informed \in BOOLEAN
    /\ pending \in Partial /\ sent \in Partial
    /\ again \in [Sends -> BOOLEAN] /\ want \in [Sends -> Partial]
    /\ refused \in [Sends -> SUBSET Keys]

LEMMA ShapeData == Shape => Data
  BY DEF Shape, TypeOK, Data, Messages, Frames

LEMMA MovedKeeps ==
  ASSUME Shape, NEW t \in Tasks, Alone(t), Moved(t), Data',
         wire' \in {wire, <<>>},
         \/ known' # None
         \/ /\ known' = known /\ t \notin Sends
            /\ \/ lock'.queue = lock.queue
               \/ lock.queue # <<>> /\ lock'.queue = Tail(lock.queue)
  PROVE  Shape'
<1> USE NamesAssumption
<1>1. lock'.holder # None => step'[lock'.holder] \in Working
  BY DEF Moved
<1>2. \A u \in Tasks : u # t => step'[u] = step[u]
  BY DEF Moved, Shape, TypeOK
<1>3. \A u \in Tasks : Fits(u, step'[u])
  BY <1>2 DEF Moved, Shape
<1>4. step' \in [Tasks -> Steps]
  BY DEF Moved, Shape, TypeOK, Steps
<1>5. \A u \in Tasks : step'[u] \in Working => lock'.holder = u
  BY <1>2 DEF Moved, Alone
<1>6. TypeOK'
  BY <1>4, <1>5 DEF Moved, Data, TypeOK, Messages, Frames, Requests, Steps
<1>7. known' = None => /\ \A u \in Sends : step'[u] = "rest"
                      /\ \A i \in DOMAIN lock'.queue : lock'.queue[i] \notin Sends
  <2>1. lock.queue \in Seq(Tasks)
    BY DEF Shape, TypeOK
  <2>2. lock.queue # <<>> =>
          \A i \in DOMAIN Tail(lock.queue) : /\ i + 1 \in DOMAIN lock.queue
                                            /\ Tail(lock.queue)[i] = lock.queue[i + 1]
    BY <2>1
  <2> QED BY <1>2, <2>2 DEF Shape, Tasks
<1>8. \A i \in DOMAIN wire' : wire'[i].type = "state" => wire'[i].frame \in State
  BY DEF Shape
<1>9. request'.future # "none" => lock'.holder # None /\ step'[lock'.holder] \in Asking
  BY DEF Moved, Tasks, Asking, Working
<1>10. request'.future # "got"
  BY DEF Moved
<1> QED BY <1>1, <1>3, <1>6, <1>7, <1>8, <1>9, <1>10 DEF Shape

\* A task that does no work queues up.
LEMMA QueuedKeeps ==
  ASSUME Shape, NEW t \in Tasks, step[t] \notin Working, Goes(t, "lock"),
         Takes(lock.holder, Append(lock.queue, t)), UNCHANGED request, Data',
         wire' = wire, known' = known, known # None \/ t \notin Sends
  PROVE  Shape'
<1> USE NamesAssumption
<1>1. \A u \in Tasks : step'[u] = IF u = t THEN "lock" ELSE step[u]
  BY DEF Goes, Shape, TypeOK
<1>2. \A u \in Tasks : Fits(u, step'[u])
  BY <1>1 DEF Shape, Fits
<1>3. step' \in [Tasks -> Steps]
  BY DEF Goes, Shape, TypeOK, Steps
<1>4. lock' \in [holder : Tasks \cup {None}, queue : Seq(Tasks)] /\ lock'.holder = lock.holder
  BY DEF Takes, Shape, TypeOK
<1>5. \A u \in Tasks : step'[u] \in Working => lock'.holder = u
  BY <1>1, <1>4 DEF Shape, TypeOK, Working
<1>6. TypeOK'
  BY <1>3, <1>4, <1>5 DEF Shape, Data, TypeOK, Messages, Frames, Steps
<1>7. lock.holder # None => lock.holder # t /\ step'[lock'.holder] = step[lock.holder]
  BY <1>1, <1>4 DEF Shape, TypeOK
<1>8. known' = None => /\ \A u \in Sends : step'[u] = "rest"
                      /\ \A i \in DOMAIN lock'.queue : lock'.queue[i] \notin Sends
  BY <1>1 DEF Shape, TypeOK, Takes, Tasks
<1> QED BY <1>2, <1>4, <1>6, <1>7, <1>8 DEF Shape, TypeOK

\* Nobody moves.
LEMMA StillKeeps ==
  ASSUME Shape, Data', UNCHANGED <<step, lock, known>>, request' \in Requests,
         \A i \in DOMAIN wire' : wire'[i].type = "state" => wire'[i].frame \in State,
         request'.future # "none" => request.future # "none",
         (request'.future = "got" /\ step[lock.holder] # "info") => request'.frame \in State
  PROVE  Shape'
<1>1. TypeOK'
  BY DEF Shape, TypeOK, Data, Messages, Frames, Requests
<1> QED BY <1>1 DEF Shape

LEMMA InitShape == Init => Shape
<1> SUFFICES ASSUME Init PROVE Shape
    OBVIOUS
<1> USE NamesAssumption DEF Init
<1>1. step \in [Tasks -> Steps] /\ \A t \in Tasks : step[t] = "rest"
  BY DEF Steps, Resting
<1>2. Data
  <2>1. wire \in Seq(Messages)
    OBVIOUS
  <2>2. again \in [Sends -> BOOLEAN] /\ want \in [Sends -> Partial] /\ refused \in [Sends -> SUBSET Keys]
    BY Values
  <2> QED BY <2>1, <2>2, Values DEF Data, Frames
<1>3. lock \in [holder : Tasks \cup {None}, queue : Seq(Tasks)] /\ lock.holder = None
      /\ lock.queue = <<>>
  OBVIOUS
<1>4. request \in Requests /\ request.future = "none"
  BY Values DEF NoRequest
<1>5. TypeOK
  BY <1>1, <1>2, <1>3, <1>4 DEF TypeOK, Data, Messages, Frames, Requests, Steps, Working
<1>6. \A t \in Tasks : Fits(t, step[t])
  BY <1>1 DEF Fits
<1> QED BY <1>1, <1>3, <1>4, <1>5, <1>6 DEF Shape, Tasks

LEMMA NextShape == Shape /\ [Next]_vars => Shape'
<1> SUFFICES ASSUME Shape, [Next]_vars PROVE Shape'
    OBVIOUS
<1> USE ShapeData, NamesAssumption
<1>0. /\ lock.holder \in Tasks \cup {None} /\ lock.queue \in Seq(Tasks)
      /\ lock.queue # <<>> => Tail(lock.queue) \in Seq(Tasks)
      /\ <<>> \in Seq(Tasks)
      /\ step \in [Tasks -> Steps]
      /\ request \in Requests
      /\ \A t \in Tasks : step[t] \in Working => lock.holder = t
  BY DEF Shape, TypeOK, Steps, Requests, Frames
<1>1. ASSUME NEW t \in Tasks, Established(t) PROVE Shape'
  <2>1. lock.holder = t /\ t \in Sends \cup {Poll}
    BY <1>0, <1>1 DEF Established, Working, Shape, Fits
  <2>2. request.future = "none"
    BY <1>0, <1>1, <2>1 DEF Established, Shape, Asking, Requests
  <2>3. Moved(t)
    BY <1>0, <1>1, <2>1, <2>2 DEF Established, Goes, Moved, Fits, Steps, Working, Shape, TypeOK
  <2>4. Alone(t) /\ Data'
    BY <1>1, <2>1, Alones DEF Established, Data, calls
  <2>5. known # None \/ t \notin Sends
    BY <1>1 DEF Established, Shape
  <2> QED BY <1>1, <2>3, <2>4, <2>5, MovedKeeps DEF Established
<1>2. ASSUME NEW t \in Tasks, Notifying(t) PROVE Shape'
  <2>1. lock.holder = t /\ t \in Sends \cup {Poll}
    BY <1>0, <1>2 DEF Notifying, Working, Shape, Fits
  <2>2. Takes(t, lock.queue)
    BY <1>0, <1>2, <2>1 DEF Notifying, Takes, Shape, TypeOK
  <2>3. CASE t \in Sends
    <3>1. Goes(t, "command") /\ request' = NewRequest
      BY <1>2, <2>3 DEF Notifying, Asks
    <3>2. Moved(t)
      BY <1>0, <1>2, <2>2, <2>3, <3>1, Values, Moves DEF Steps, Working, Asking, Fits, NewRequest
    <3>3. Alone(t) /\ Data' /\ known # None
      BY <1>2, <2>1, <2>3, Alones DEF Notifying, Data, calls, Shape
    <3> QED BY <1>2, <3>2, <3>3, MovedKeeps DEF Notifying
  <2>4. CASE t = Poll
    <3>1. PICK s \in {"state", "info"} : Goes(t, s) /\ request' = NewRequest
      BY <1>2, <2>4 DEF Notifying, Asks
    <3>2. Moved(t)
      BY <1>0, <1>2, <2>2, <2>4, <3>1, Values, Moves DEF Steps, Working, Asking, Fits, NewRequest
    <3>3. Alone(t) /\ Data' /\ t \notin Sends
      BY <1>2, <2>1, <2>4, Alones DEF Notifying, Data, calls
    <3> QED BY <1>2, <3>2, <3>3, MovedKeeps DEF Notifying
  <2> QED BY <2>1, <2>3, <2>4
<1>3. ASSUME NEW t \in Tasks, Raises(t) \/ Dropped(t) PROVE Shape'
  <2>1. lock.holder = t /\ step[t] = "drop" /\ Frees(lock.queue)
    BY <1>0, <1>3 DEF Raises, Dropped, Working
  <2>2. request.future = "none"
    BY <1>0, <2>1 DEF Shape, Asking, Requests
  <2>3. PICK s \in {"raised", "returned"} : Goes(t, s)
    BY <1>3 DEF Raises, Dropped
  <2>4. Moved(t)
    BY <1>0, <1>3, <2>1, <2>2, <2>3, Moves DEF Raises, Dropped, Fits, Steps, Working, Resting
  <2>5. Alone(t) /\ Data'
    BY <1>3, <2>1, Alones DEF Raises, Dropped, Data, calls, Schedules
  <2>6. known # None \/ t \notin Sends
    BY <2>1 DEF Shape
  <2> QED BY <1>3, <2>1, <2>4, <2>5, <2>6, MovedKeeps DEF Raises, Dropped, Frees, Takes
<1>4. ASSUME NEW t \in Tasks, WakeDrop(t) PROVE Shape'
  <2>1. /\ Moved(t) /\ wire' = <<>> /\ client' = "none"
        /\ lock'.queue = Tail(lock.queue)
    BY <1>0, <1>4, DropsMoves DEF WakeDrop
  <2>2. Alone(t) /\ Data'
    BY <1>4, <2>1, Alones DEF WakeDrop, Data, calls
  <2>3. t \notin Sends /\ lock.queue # <<>> /\ known' = known
    BY <1>4 DEF WakeDrop
  <2> QED BY <2>1, <2>2, <2>3, MovedKeeps
<1>5. ASSUME NEW t \in Sends, Call(t) PROVE Shape'
  <2>1. PICK g \in Changes : Sets(t, g, pending, [want EXCEPT ![t] = Nothing])
    BY <1>5 DEF Call
  <2>2. pending' \in Partial /\ want' \in [Sends -> Partial]
    BY <2>1, Values DEF Sets, Changes, Partial, Data
  <2>3. again' \in [Sends -> BOOLEAN] /\ refused' \in [Sends -> SUBSET Keys]
    <3>1. PICK more \in BOOLEAN : again' = [again EXCEPT ![t] = more]
      BY <1>5 DEF Call
    <3>2. refused' = [refused EXCEPT ![t] = {}]
      BY <1>5 DEF Call
    <3> QED BY <3>1, <3>2 DEF Data
  <2>4. t \in Tasks /\ step[t] \notin Working
    BY <1>5 DEF Call, Tasks, Resting, Working
  <2>5. CASE lock.holder = None /\ lock.queue = <<>>
    <3>1. sent' = pending' /\ Connects(t) /\ Takes(t, <<>>)
      BY <1>5, <2>5 DEF Call, Commands
    <3>2. Moved(t)
      BY <1>0, <3>1, ConnectsMoves
    <3>3. Alone(t) /\ Data'
      BY <1>5, <2>2, <2>3, <2>4, <2>5, <3>1, Alones DEF Call, Data
    <3> QED BY <1>5, <2>4, <3>2, <3>3, MovedKeeps DEF Call
  <2>6. CASE ~(lock.holder = None /\ lock.queue = <<>>)
    <3>1. Data'
      BY <1>5, <2>2, <2>3, <2>6 DEF Call, Data
    <3> QED BY <1>5, <2>4, <2>6, <3>1, QueuedKeeps DEF Call
  <2> QED BY <2>5, <2>6
<1>6. ASSUME NEW t \in Sends, WakeSend(t) PROVE Shape'
  <2>1. t \in Tasks /\ lock.holder = None /\ Tail(lock.queue) \in Seq(Tasks)
    BY <1>0, <1>6 DEF WakeSend, Tasks
  <2>2. Moved(t) /\ Data'
    <3>1. CASE pending = Nothing
      <4>1. Returns(t, Tail(lock.queue), pending, want)
        BY <1>6, <3>1 DEF WakeSend
      <4> QED BY <1>6, <2>1, <4>1, ReturnsMoves DEF WakeSend, Data
    <3>2. CASE pending # Nothing
      BY <1>6, <2>1, <3>2, ConnectsMoves DEF WakeSend, Commands, Data
    <3> QED BY <3>1, <3>2
  <2>3. known # None
    BY <1>0, <1>6 DEF WakeSend, Shape
  <2>4. Alone(t)
    BY <2>1, Alones
  <2> QED BY <1>6, <2>1, <2>2, <2>3, <2>4, MovedKeeps DEF WakeSend
<1>7. Unsettled \in [Sends -> Partial] /\ Remains \in Partial
  BY DEF Unsettled, Remains, Data, Partial
<1>8. ASSUME NEW t \in Sends, CommandAnswered(t) PROVE Shape'
  <2>1. t \in Tasks /\ lock.holder = t
    BY <1>0, <1>8 DEF CommandAnswered, Tasks, Working
  <2>2. Returns(t, lock.queue, Remains, Unsettled)
    BY <1>8 DEF CommandAnswered
  <2>3. known' \in State /\ known' # None
    BY <1>8, <2>1 DEF CommandAnswered, Shape, State
  <2>4. Moved(t) /\ Data'
    BY <1>0, <1>7, <1>8, <2>2, <2>3, ReturnsMoves DEF CommandAnswered, Data, Frames, Schedules
  <2> QED BY <1>8, <2>1, <2>3, <2>4, Alones, MovedKeeps DEF CommandAnswered
<1>9. ASSUME NEW t \in Sends, SendFails(t) PROVE Shape'
  <2>1. t \in Tasks /\ lock.holder = t /\ step[t] \in Working
    BY <1>0, <1>9 DEF SendFails, Tasks, Working
  <2>2. Disconnects(t)
    BY <1>9 DEF SendFails
  <2>3. Moved(t) /\ client' = "none" /\ wire' = <<>> /\ timer' \in BOOLEAN
    BY <2>1, <2>2, DisconnectsMoves
  <2>4. refused' \in [Sends -> SUBSET Keys] /\ again' \in [Sends -> BOOLEAN]
    BY <1>9 DEF SendFails, Data
  <2>5. Data'
    BY <1>7, <1>9, <2>3, <2>4 DEF SendFails, Data
  <2>6. known # None
    BY <1>9 DEF SendFails, Shape
  <2> QED BY <1>9, <2>1, <2>3, <2>5, <2>6, Alones, MovedKeeps DEF SendFails
<1>10. Poll \in Tasks /\ Poll \notin Sends /\ Idle \in Tasks /\ Shutdown \in Tasks
  BY DEF Tasks
<1>11. CASE StartPoll
  <2>1. Data'
    BY <1>11 DEF StartPoll, Data, calls
  <2>2. CASE lock.holder = None /\ lock.queue = <<>>
    <3>1. Connects(Poll) /\ Takes(Poll, <<>>)
      BY <1>11, <2>2 DEF StartPoll
    <3>2. Moved(Poll) /\ lock'.queue = lock.queue
      BY <1>0, <1>10, <2>2, <3>1, ConnectsMoves DEF Takes
    <3> QED BY <1>10, <1>11, <2>1, <2>2, <3>2, Alones, MovedKeeps DEF StartPoll
  <2>3. CASE ~(lock.holder = None /\ lock.queue = <<>>)
    BY <1>10, <1>11, <2>1, <2>3, QueuedKeeps DEF StartPoll, Resting, Working
  <2> QED BY <2>2, <2>3
<1>12. CASE WakePoll
  <2>1. Connects(Poll) /\ Takes(Poll, Tail(lock.queue)) /\ Tail(lock.queue) \in Seq(Tasks)
    BY <1>0, <1>12 DEF WakePoll
  <2>2. Data'
    BY <1>12 DEF WakePoll, Data, calls
  <2> QED BY <1>10, <1>12, <2>1, <2>2, Alones, ConnectsMoves, MovedKeeps DEF WakePoll, Takes
<1>13. CASE InfoAnswered
  <2>1. lock.holder = Poll /\ Takes(Poll, lock.queue)
    BY <1>0, <1>10, <1>13 DEF InfoAnswered, Working, Takes, Shape, TypeOK
  <2>2. Moved(Poll)
    BY <1>0, <1>10, <1>13, <2>1, Values, Moves
    DEF InfoAnswered, Steps, Working, Asking, Fits, NewRequest
  <2>3. Data'
    BY <1>13 DEF InfoAnswered, Data, calls
  <2> QED BY <1>10, <1>13, <2>1, <2>2, <2>3, Alones, MovedKeeps DEF InfoAnswered
<1>14. CASE StateAnswered
  <2>1. lock.holder = Poll
    BY <1>0, <1>10, <1>14 DEF StateAnswered, Working
  <2>2. Moved(Poll)
    BY <1>0, <1>10, <1>14, <2>1, Values, Moves
    DEF StateAnswered, Steps, Resting, Working, Asking, Fits, NoRequest
  <2>3. known' \in State /\ known' # None
    BY <1>14, <2>1 DEF StateAnswered, Shape, State
  <2>4. Data'
    BY <1>14, <2>3 DEF StateAnswered, Data, calls, Frames, Schedules
  <2> QED BY <1>10, <1>14, <2>1, <2>2, <2>3, <2>4, Alones, MovedKeeps DEF StateAnswered
<1>15. CASE PollFails
  <2>1. lock.holder = Poll /\ step[Poll] \in Working
    BY <1>0, <1>10, <1>15 DEF PollFails, Working
  <2>2. Disconnects(Poll)
    BY <1>15 DEF PollFails
  <2>3. /\ Moved(Poll) /\ client' = "none" /\ wire' = <<>> /\ timer' \in BOOLEAN
        /\ lock'.queue = lock.queue
    BY <2>1, <2>2, DisconnectsMoves DEF Disconnects, Frees, Takes
  <2>4. Data'
    BY <1>15, <2>3 DEF PollFails, Data, calls
  <2> QED BY <1>10, <1>15, <2>1, <2>3, <2>4, Alones, MovedKeeps DEF PollFails
<1>16. CASE PollCancelled
  <2>1. Data'
    BY <1>16 DEF PollCancelled, Data, calls, Schedules
  <2>2. CASE step[Poll] = "lock"
    <3>1. PICK i \in DOMAIN lock.queue :
            Takes(lock.holder, SubSeq(lock.queue, 1, i - 1)
                                 \o SubSeq(lock.queue, i + 1, Len(lock.queue)))
      BY <1>16, <2>2 DEF PollCancelled
    <3>2. i \in 1 .. Len(lock.queue)
      BY <1>0
    <3> DEFINE a == SubSeq(lock.queue, 1, i - 1)
               b == SubSeq(lock.queue, i + 1, Len(lock.queue))
    <3>3. /\ a \in Seq(Tasks) /\ b \in Seq(Tasks)
          /\ \A j \in DOMAIN a : a[j] = lock.queue[j] /\ j \in DOMAIN lock.queue
          /\ \A j \in DOMAIN b : b[j] = lock.queue[i + j] /\ i + j \in DOMAIN lock.queue
      <4>1. a \in Seq(Tasks) /\ \A j \in DOMAIN a : a[j] = lock.queue[j] /\ j \in DOMAIN lock.queue
        BY <1>0, <3>2
      <4>2. b \in Seq(Tasks)
        BY <1>0, <3>2
      <4>3. \A j \in DOMAIN b : b[j] = lock.queue[i + j] /\ i + j \in DOMAIN lock.queue
        BY <1>0, <3>2
      <4> QED BY <4>1, <4>2, <4>3
    <3>4. /\ a \o b \in Seq(Tasks)
          /\ \A j \in DOMAIN (a \o b) : \E k \in DOMAIN lock.queue : (a \o b)[j] = lock.queue[k]
      <4> HIDE DEF a, b
      <4>1. /\ a \o b \in Seq(Tasks)
            /\ \A j \in DOMAIN (a \o b) : \/ j \in DOMAIN a /\ (a \o b)[j] = a[j]
                                          \/ j - Len(a) \in DOMAIN b /\ (a \o b)[j] = b[j - Len(a)]
        BY <3>3
      <4> QED BY <3>3, <4>1
    <3>5. lock' = [holder |-> lock.holder, queue |-> a \o b]
      BY <3>1 DEF Takes
    <3> HIDE DEF a, b
    <3>6. step' = [step EXCEPT ![Poll] = "raised"] /\ UNCHANGED <<request, known, wire>>
      BY <1>16, <2>2 DEF PollCancelled, Goes
    <3>7. \A u \in Tasks : step'[u] = IF u = Poll THEN "raised" ELSE step[u]
      BY <1>0, <3>6
    <3>8. lock.holder # Poll
      BY <2>2 DEF Shape, Working
    <3>9. TypeOK'
      BY <1>0, <2>1, <3>4, <3>5, <3>6, <3>7
      DEF TypeOK, Data, Messages, Frames, Requests, Steps, Resting, Working
    <3>10. \A j \in DOMAIN lock'.queue :
             \E k \in DOMAIN lock.queue : lock'.queue[j] = lock.queue[k]
      BY <3>4, <3>5
    <3>11. lock'.holder = lock.holder /\ (lock.holder # None => step'[lock.holder] = step[lock.holder])
      BY <1>0, <3>5, <3>7, <3>8
    <3>12. \A u \in Tasks : Fits(u, step'[u])
      BY <3>7 DEF Shape, Fits
    <3> QED BY <1>10, <3>6, <3>7, <3>9, <3>10, <3>11, <3>12 DEF Shape, Tasks
  <2>3. CASE step[Poll] # "lock"
    <3>1. lock.holder = Poll
      BY <1>0, <1>10, <1>16, <2>3 DEF PollCancelled, Working
    <3>2. /\ Goes(Poll, "raised") /\ Frees(lock.queue) /\ request' = NoRequest
          /\ known' = known /\ wire' = wire
      BY <1>16, <2>3 DEF PollCancelled
    <3>3. Moved(Poll)
      BY <1>0, <1>10, <3>2, Values, Moves DEF Steps, Resting, Working, Fits, NoRequest
    <3> QED BY <1>10, <2>1, <3>1, <3>2, <3>3, Alones, MovedKeeps DEF Frees, Takes
  <2> QED BY <2>2, <2>3
<1>17. CASE TimerFires
  <2>1. CASE lock.holder # None
    <3>1. Data'
      BY <1>17, <2>1 DEF TimerFires, Data, calls
    <3> QED BY <1>0, <1>17, <2>1, <3>1, StillKeeps DEF TimerFires, Shape
  <2>2. CASE lock.holder = None /\ lock.queue = <<>>
    <3>1. Drops(Idle, <<>>) /\ timer' = FALSE
          /\ UNCHANGED <<device, closed, sent, known, informed, pending, calls>>
      BY <1>17, <2>2 DEF TimerFires
    <3>2. Moved(Idle) /\ wire' = <<>> /\ client' = "none" /\ lock'.queue = <<>>
      BY <1>0, <3>1, DropsMoves
    <3>3. Alone(Idle)
      BY <1>10, <2>2, Alones
    <3>4. <<>> \in Seq(Messages)
      OBVIOUS
    <3>5. Data'
      BY <3>1, <3>2, <3>4 DEF Data, calls
    <3> QED BY <1>10, <2>2, <3>1, <3>2, <3>3, <3>5, MovedKeeps
  <2>3. CASE lock.holder = None /\ lock.queue # <<>>
    <3>1. Data'
      BY <1>17, <2>3 DEF TimerFires, Data, calls
    <3>2. step[Idle] \notin Working /\ Goes(Idle, "lock") /\ UNCHANGED request
          /\ Takes(lock.holder, Append(lock.queue, Idle))
      BY <1>17, <2>3 DEF TimerFires, Resting, Working, Frees
    <3> QED BY <1>10, <1>17, <2>3, <3>1, <3>2, QueuedKeeps DEF TimerFires
  <2> QED BY <2>1, <2>2, <2>3
<1>18. CASE Unload
  <2>1. CASE lock.holder = None /\ lock.queue = <<>>
    <3>1. Drops(Shutdown, <<>>) /\ timer' = FALSE /\ closed' = TRUE
          /\ UNCHANGED <<device, sent, known, informed, pending, calls>>
      BY <1>18, <2>1 DEF Unload
    <3>2. Moved(Shutdown) /\ wire' = <<>> /\ client' = "none" /\ lock'.queue = <<>>
      BY <1>0, <3>1, DropsMoves
    <3>3. Alone(Shutdown)
      BY <1>10, <2>1, Alones
    <3>4. <<>> \in Seq(Messages)
      OBVIOUS
    <3>5. Data'
      BY <3>1, <3>2, <3>4 DEF Data, calls
    <3> QED BY <1>10, <2>1, <3>1, <3>2, <3>3, <3>5, MovedKeeps
  <2>2. CASE ~(lock.holder = None /\ lock.queue = <<>>)
    <3>1. Data'
      BY <1>18, <2>2 DEF Unload, Data, calls
    <3> QED BY <1>10, <1>18, <2>2, <3>1, QueuedKeeps DEF Unload, Resting, Working
  <2> QED BY <2>1, <2>2
<1>19. CASE Handle
  <2>1. /\ request' = [request EXCEPT !.taken = TRUE] /\ request.future = "wait"
        /\ UNCHANGED <<step, lock, known>>
    BY <1>19 DEF Handle
  <2>2. request' \in Requests /\ request'.future = "wait"
    BY <1>0, <2>1 DEF Requests
  <2>3. step[lock.holder] = "command" => known \in State
    BY <1>0, <2>1 DEF Shape, TypeOK, Working, Fits, Tasks
  <2>4. device' \in State
    BY <1>19, <2>3, Values DEF Handle, Data
  <2>5. PICK m \in Messages : /\ wire' = wire \/ wire' = Append(wire, m)
                              /\ m.frame \in State \/ m.type = "info"
    BY <1>19, <2>4 DEF Handle, Messages, Frames
  <2>6. /\ wire' \in Seq(Messages)
        /\ \A i \in DOMAIN wire' : (i \in DOMAIN wire /\ wire'[i] = wire[i]) \/ wire'[i] = m
    <3>1. CASE wire' = wire
      BY <3>1 DEF Data
    <3>2. CASE wire' = Append(wire, m)
      <4>1. wire \in Seq(Messages)
        BY DEF Data
      <4>2. /\ wire' \in Seq(Messages) /\ DOMAIN wire = 1 .. Len(wire)
            /\ DOMAIN wire' = 1 .. Len(wire) + 1 /\ Len(wire) \in Nat
            /\ wire'[Len(wire) + 1] = m
            /\ \A i \in 1 .. Len(wire) : wire'[i] = wire[i]
        BY <3>2, <4>1
      <4> QED BY <4>2
    <3> QED BY <2>5, <3>1, <3>2
  <2>7. \A i \in DOMAIN wire' : wire'[i].type = "state" => wire'[i].frame \in State
    BY <2>5, <2>6 DEF Shape
  <2>8. Data'
    BY <1>19, <2>4, <2>6 DEF Handle, Data, calls
  <2> QED BY <2>1, <2>2, <2>7, <2>8, StillKeeps
<1>20. CASE Notified
  <2>1. /\ Head(wire) \in Messages /\ Tail(wire) \in Seq(Messages)
        /\ 1 \in DOMAIN wire /\ Head(wire) = wire[1]
        /\ \A i \in DOMAIN Tail(wire) : i + 1 \in DOMAIN wire /\ Tail(wire)[i] = wire[i + 1]
    BY <1>20 DEF Notified, Data
  <2>2. Head(wire).type = "state" => Head(wire).frame \in State
    BY <2>1 DEF Shape
  <2>3. UNCHANGED <<step, lock, known>> /\ wire' = Tail(wire)
    BY <1>20 DEF Notified
  <2>4. Data'
    BY <1>20, <2>1 DEF Notified, Data, calls
  <2>5. \A i \in DOMAIN wire' : wire'[i].type = "state" => wire'[i].frame \in State
    BY <2>1, <2>3 DEF Shape
  <2>6. CASE request' = request
    BY <1>0, <2>3, <2>4, <2>5, <2>6, StillKeeps DEF Shape
  <2>7. CASE /\ request' = [request EXCEPT !.future = "got", !.frame = Head(wire).frame]
             /\ request.future = "wait"
             /\ (Head(wire).type = "info") = (step[lock.holder] = "info")
    <3>1. Head(wire).type \in {"info", "state"} /\ Head(wire).frame \in Frames
      BY <2>1 DEF Messages
    <3>2. request' \in Requests /\ request'.frame = Head(wire).frame
      BY <1>0, <2>7, <3>1 DEF Requests
    <3>3. step[lock.holder] # "info" => request'.frame \in State
      BY <2>2, <2>7, <3>1, <3>2
    <3> QED BY <2>3, <2>4, <2>5, <2>7, <3>2, <3>3, StillKeeps
  <2> QED BY <1>20, <2>6, <2>7 DEF Notified
<1>21. CASE LinkLost
  <2>1. Data' /\ wire' = <<>>
    BY <1>21 DEF LinkLost, Data, calls
  <2>2. /\ request' \in Requests
        /\ request'.future # "none" => request.future # "none"
        /\ request'.future = "got" => request' = request
    BY <1>0, <1>21 DEF LinkLost, Requests
  <2>3. UNCHANGED <<step, lock, known>>
    BY <1>21 DEF LinkLost
  <2> QED BY <2>1, <2>2, <2>3, StillKeeps DEF Shape
<1>22. CASE Remote
  BY <1>22, <1>0, StillKeeps DEF Remote, Data, calls, Shape
<1>23. CASE UNCHANGED vars
  BY <1>23, <1>0, StillKeeps DEF vars, Data, Shape
<1> QED BY <1>1, <1>2, <1>3, <1>4, <1>5, <1>6, <1>8, <1>9, <1>11, <1>12, <1>13, <1>14, <1>15,
           <1>16, <1>17, <1>18, <1>19, <1>20, <1>21, <1>22, <1>23 DEF Next

LEMMA ShapeInvariant == Spec => []Shape
<1>1. Init => Shape
  BY InitShape
<1>2. Shape /\ [Next]_vars => Shape'
  BY NextShape
<1> QED BY <1>1, <1>2, PTL DEF Spec

\* The types are right, and a task works with the link only while it holds the lock.
THEOREM TypeCorrect == Spec => []TypeOK
<1>1. Shape => TypeOK
  BY DEF Shape
<1> QED BY <1>1, ShapeInvariant, PTL

-----------------------------------------------------------------------------
(* A link that nobody uses is watched *)

Queued(t) == \E i \in DOMAIN lock.queue : lock.queue[i] = t

\* A task disconnects after the client was forgotten; without a timer, the idle
\* task is on its way.
Link ==
    /\ \A t \in Tasks : step[t] = "drop" => client = "none"
    /\ (client # "none" /\ lock.holder = None /\ ~closed) => timer \/ Queued(Idle)

\* One more in the queue, or one less.
LEMMA Queues ==
  ASSUME NEW q \in Seq(Tasks), NEW t \in Tasks
  PROVE  /\ \A i \in DOMAIN q : i \in DOMAIN Append(q, t) /\ Append(q, t)[i] = q[i]
         /\ Len(q) + 1 \in DOMAIN Append(q, t) /\ Append(q, t)[Len(q) + 1] = t
         /\ q # <<>> => \A i \in DOMAIN q :
                          i = 1 \/ (i - 1 \in DOMAIN Tail(q) /\ Tail(q)[i - 1] = q[i])
         /\ q # <<>> => Head(q) = q[1]
  OBVIOUS

\* Steps that leave the link and who has the lock alone.
LEMMA StillLink ==
  ASSUME Link, UNCHANGED <<step, timer, closed>>, lock' = lock,
         client' = client \/ (client # "none" /\ client' # "none")
  PROVE  Link'
  BY DEF Link, Queued

\* The client is forgotten.
LEMMA ForgottenLink ==
  ASSUME client' = "none"
  PROVE  Link'
  BY DEF Link

\* The holder of the lock keeps it, and does not disconnect.
LEMMA HeldLink ==
  ASSUME Shape, Link, NEW t \in Tasks, Alone(t), Moved(t), step'[t] \in Working \ {"drop"}
  PROVE  Link'
<1>1. \A u \in Tasks : u # t => step'[u] = step[u]
  BY DEF Moved, Shape, TypeOK
<1>2. \A u \in Tasks : step'[u] # "drop"
  BY <1>1 DEF Alone, Working
<1>3. lock'.holder = t /\ t # None
  BY NamesAssumption DEF Moved, Tasks
<1> QED BY <1>2, <1>3 DEF Link

\* The lock is released, and the timer is armed.
LEMMA FreedLink ==
  ASSUME Shape, Link, NEW t \in Tasks, Alone(t), Moved(t), step'[t] # "drop",
         Schedules, closed' = closed
  PROVE  Link'
<1>1. \A u \in Tasks : u # t => step'[u] = step[u]
  BY DEF Moved, Shape, TypeOK
<1>2. \A u \in Tasks : step'[u] # "drop"
  BY <1>1 DEF Alone, Working
<1> QED BY <1>2 DEF Link, Schedules

\* A task queues up.
LEMMA QueuedLink ==
  ASSUME Shape, Link, NEW t \in Tasks, step[t] \notin Working, Goes(t, "lock"),
         Takes(lock.holder, Append(lock.queue, t)), client' = client,
         (timer' = timer /\ closed' = closed) \/ t = Idle \/ closed'
  PROVE  Link'
<1>1. \A u \in Tasks : step'[u] = "drop" => step[u] = "drop"
  BY DEF Goes, Shape, TypeOK
<1>2. lock'.queue = Append(lock.queue, t) /\ lock'.holder = lock.holder
  BY DEF Takes
<1>3. Queued(Idle) \/ t = Idle => Queued(Idle)'
  BY <1>2, Queues DEF Queued, Shape, TypeOK
<1>4. closed' \/ closed' = closed \/ t = Idle
  OBVIOUS
<1> QED BY <1>1, <1>2, <1>3, <1>4 DEF Link

LEMMA InitLink == Init => Link
  BY DEF Init, Link

LEMMA NextLink == Shape /\ Link /\ [Next]_vars => Link'
<1> SUFFICES ASSUME Shape, Link, [Next]_vars PROVE Link'
    OBVIOUS
<1> USE NamesAssumption
<1>0. /\ lock.holder \in Tasks \cup {None} /\ lock.queue \in Seq(Tasks)
      /\ lock.queue # <<>> => Tail(lock.queue) \in Seq(Tasks)
      /\ <<>> \in Seq(Tasks)
      /\ step \in [Tasks -> Steps]
      /\ \A t \in Tasks : step[t] \in Working => lock.holder = t
      /\ lock = [holder |-> lock.holder, queue |-> lock.queue]
      /\ Poll \in Tasks /\ Idle \in Tasks /\ Shutdown \in Tasks /\ Sends \subseteq Tasks
      /\ pending \in Partial /\ want \in [Sends -> Partial]
  BY DEF Shape, TypeOK, Steps, Tasks
<1>1. ASSUME NEW t \in Tasks, Established(t) \/ Notifying(t) PROVE Link'
  <2>1. lock.holder = t /\ t # None /\ \A u \in Tasks \ {t} : step[u] # "drop"
    <3>1. step[t] \in {"connect", "notify"}
      BY <1>1 DEF Established, Notifying
    <3>2. lock.holder = t
      BY <1>0, <3>1 DEF Working
    <3> QED BY <1>0, <3>2 DEF Working, Tasks
  <2>2. PICK s \in {"notify", "command", "state", "info"} : Goes(t, s)
    BY <1>1 DEF Established, Notifying, Asks
  <2>3. \A u \in Tasks : step'[u] # "drop"
    BY <1>0, <2>1, <2>2 DEF Goes
  <2>4. lock' = lock
    BY <1>1 DEF Established, Notifying
  <2> QED BY <2>1, <2>3, <2>4 DEF Link
<1>2. ASSUME NEW t \in Tasks, Raises(t) \/ Dropped(t) PROVE Link'
  BY <1>0, <1>2 DEF Link, Raises, Dropped
<1>3. ASSUME NEW t \in Tasks, WakeDrop(t) PROVE Link'
  BY <1>3, ForgottenLink DEF WakeDrop, Drops, Forgets
<1>4. ASSUME NEW t \in Sends, Call(t) PROVE Link'
  <2>1. CASE lock.holder = None /\ lock.queue = <<>>
    <3>1. Connects(t) /\ Takes(t, <<>>)
      BY <1>4, <2>1 DEF Call, Commands
    <3>2. Moved(t) /\ step'[t] \in {"connect", "info", "state", "command"}
      BY <1>0, <3>1, ConnectsMoves
    <3>3. Alone(t)
      BY <1>0, <2>1, Alones
    <3> QED BY <1>0, <3>2, <3>3, HeldLink DEF Working
  <2>2. CASE ~(lock.holder = None /\ lock.queue = <<>>)
    BY <1>0, <1>4, <2>2, QueuedLink DEF Call, Resting, Working
  <2> QED BY <2>1, <2>2
<1>5. ASSUME NEW t \in Tasks, lock.holder = None, lock.queue # <<>>, Head(lock.queue) = t,
             t # Idle, UNCHANGED <<client, timer, closed>>,
             NEW q \in Seq(Tasks), q = Tail(lock.queue),
             Goes(t, "lock") \/ Goes(t, "returned"),
             Frees(q) \/ Frees(Append(q, t))
      PROVE  Link'
  <2>1. \A u \in Tasks : step'[u] = "drop" => step[u] = "drop"
    BY <1>0, <1>5 DEF Goes
  <2>2. ASSUME Queued(Idle) PROVE Queued(Idle)'
    <3>1. PICK i \in DOMAIN lock.queue : lock.queue[i] = Idle
      BY <2>2 DEF Queued
    <3>2. i - 1 \in DOMAIN q /\ q[i - 1] = Idle
      BY <1>0, <1>5, <3>1, Queues
    <3>3. i - 1 \in DOMAIN Append(q, t) /\ Append(q, t)[i - 1] = Idle
      BY <1>5, <3>2, Queues
    <3> QED BY <1>5, <3>2, <3>3 DEF Queued, Frees, Takes
  <2> QED BY <1>5, <2>1, <2>2 DEF Link
<1>6. ASSUME NEW t \in Sends, WakeSend(t) PROVE Link'
  <2>1. Alone(t) /\ t # Idle /\ Tail(lock.queue) \in Seq(Tasks) /\ t \in Tasks
    BY <1>0, <1>6, Alones DEF WakeSend
  <2>2. CASE step'[t] \in Working \ {"drop"} /\ Moved(t)
    BY <1>0, <2>1, <2>2, HeldLink
  <2>3. CASE pending = Nothing
    <3>1. Returns(t, Tail(lock.queue), pending, want)
      BY <1>6, <2>3 DEF WakeSend
    <3>2. Moved(t) /\ step'[t] \in {"returned", "lock", "connect", "command"}
      BY <1>0, <2>1, <3>1, ReturnsMoves
    <3>3. CASE step'[t] \in {"returned", "lock"}
      <4>1. \/ Goes(t, "returned") /\ Frees(Tail(lock.queue))
            \/ Goes(t, "lock") /\ Frees(Append(Tail(lock.queue), t))
        <5>1. CASE again[t] /\ Tail(lock.queue) = <<>>
          <6>1. Connects(t)
            BY <3>1, <5>1 DEF Returns, Commands
          <6>2. Goes(t, "connect") \/ Goes(t, "command") \/ Goes(t, "state") \/ Goes(t, "info")
            BY <6>1 DEF Connects, Asks
          <6> QED BY <1>0, <3>3, <6>2 DEF Goes
        <5>2. CASE ~(again[t] /\ Tail(lock.queue) = <<>>)
          BY <3>1, <5>2 DEF Returns
        <5> QED BY <5>1, <5>2
      <4> QED BY <1>5, <1>6, <2>1, <4>1 DEF WakeSend
    <3> QED BY <2>2, <3>2, <3>3 DEF Working
  <2>4. CASE pending # Nothing
    <3>1. Connects(t) /\ Takes(t, Tail(lock.queue))
      BY <1>6, <2>4 DEF WakeSend, Commands
    <3> QED BY <2>1, <2>2, <3>1, ConnectsMoves DEF Working
  <2> QED BY <2>3, <2>4
<1>7. ASSUME NEW t \in Sends, CommandAnswered(t) PROVE Link'
  <2>1. t \in Tasks /\ Alone(t)
    BY <1>0, <1>7, Alones DEF CommandAnswered, Working
  <2>2. Unsettled \in [Sends -> Partial] /\ Remains \in Partial
    BY <1>0 DEF Unsettled, Remains, Partial
  <2>3. Moved(t) /\ step'[t] \in {"returned", "lock", "connect", "command"}
    BY <1>0, <1>7, <2>2, ReturnsMoves DEF CommandAnswered
  <2> QED BY <1>7, <2>1, <2>3, FreedLink DEF CommandAnswered
<1>8. ASSUME NEW t \in Sends, SendFails(t) PROVE Link'
  BY <1>8, ForgottenLink DEF SendFails, Disconnects, Forgets
<1>9. CASE StartPoll
  <2>1. CASE lock.holder = None /\ lock.queue = <<>>
    <3>1. Connects(Poll) /\ Takes(Poll, <<>>)
      BY <1>9, <2>1 DEF StartPoll
    <3>2. Moved(Poll) /\ step'[Poll] \in {"connect", "info", "state", "command"}
      BY <1>0, <3>1, ConnectsMoves
    <3> QED BY <1>0, <2>1, <3>2, Alones, HeldLink DEF Working
  <2>2. CASE ~(lock.holder = None /\ lock.queue = <<>>)
    BY <1>0, <1>9, <2>2, QueuedLink DEF StartPoll, Resting, Working
  <2> QED BY <2>1, <2>2
<1>10. CASE WakePoll
  <2>1. Connects(Poll) /\ Takes(Poll, Tail(lock.queue)) /\ Tail(lock.queue) \in Seq(Tasks)
    BY <1>0, <1>10 DEF WakePoll
  <2>2. Moved(Poll) /\ step'[Poll] \in {"connect", "info", "state", "command"}
    BY <2>1, ConnectsMoves
  <2>3. Alone(Poll)
    BY <1>0, <1>10, Alones DEF WakePoll
  <2> QED BY <1>0, <2>2, <2>3, HeldLink DEF Working
<1>11. CASE InfoAnswered
  <2>1. lock' = lock /\ lock.holder = Poll
    BY <1>0, <1>11 DEF InfoAnswered, Working
  <2>2. \A u \in Tasks : step'[u] = "drop" => step[u] = "drop"
    BY <1>0, <1>11 DEF InfoAnswered, Goes
  <2> QED BY <1>0, <1>11, <2>1, <2>2 DEF Link, InfoAnswered
<1>12. CASE StateAnswered
  <2>1. \A u \in Tasks : step'[u] = "drop" => step[u] = "drop"
    BY <1>0, <1>12 DEF StateAnswered, Goes
  <2> QED BY <1>12, <2>1 DEF Link, StateAnswered, Schedules
<1>13. CASE PollFails
  BY <1>13, ForgottenLink DEF PollFails, Disconnects, Forgets
<1>14. CASE PollCancelled
  <2>1. \A u \in Tasks : step'[u] = "drop" => step[u] = "drop"
    BY <1>0, <1>14 DEF PollCancelled, Goes
  <2> QED BY <1>14, <2>1 DEF Link, PollCancelled
<1>15. CASE TimerFires
  <2>1. CASE lock.holder # None
    <3>1. lock' = lock /\ step' = step /\ client' = client
      BY <1>15, <2>1 DEF TimerFires
    <3> QED BY <2>1, <3>1 DEF Link
  <2>2. CASE lock.holder = None /\ lock.queue = <<>>
    BY <1>15, <2>2, ForgottenLink DEF TimerFires, Drops, Forgets
  <2>3. CASE lock.holder = None /\ lock.queue # <<>>
    BY <1>0, <1>15, <2>3, QueuedLink DEF TimerFires, Resting, Working, Frees
  <2> QED BY <2>1, <2>2, <2>3
<1>16. CASE Unload
  <2>1. CASE lock.holder = None /\ lock.queue = <<>>
    BY <1>16, <2>1, ForgottenLink DEF Unload, Drops, Forgets
  <2>2. CASE ~(lock.holder = None /\ lock.queue = <<>>)
    BY <1>0, <1>16, <2>2, QueuedLink DEF Unload, Resting, Working
  <2> QED BY <2>1, <2>2
<1>17. CASE Handle \/ Notified \/ Remote \/ UNCHANGED vars
  BY <1>17, StillLink DEF Handle, Notified, Remote, vars
<1>18. CASE LinkLost
  BY <1>18, StillLink DEF LinkLost, Connected
<1> QED BY <1>1, <1>2, <1>3, <1>4, <1>6, <1>7, <1>8, <1>9, <1>10, <1>11, <1>12, <1>13, <1>14,
           <1>15, <1>16, <1>17, <1>18 DEF Next

\* A link that nobody uses has a timer that will drop it.
THEOREM IdleLinkWatched == Spec => []LinkIsWatched
<1>1. Init => Link
  BY InitLink
<1>2. Shape /\ Link /\ [Next]_vars => Link'
  BY NextLink
<1>3. Link => LinkIsWatched
  BY DEF Link, LinkIsWatched, Queued
<1> QED BY <1>1, <1>2, <1>3, ShapeInvariant, PTL DEF Spec

-----------------------------------------------------------------------------
(* An answer belongs to its request *)

\* The frame m answers the request under way.
Right(m) ==
    /\ (m.type = "info") = (step[lock.holder] = "info")
    /\ step[lock.holder] = "command" => m.frame = Over(sent, known)

\* Until the entry is unloaded, at most one frame is on its way, the answer to the
\* request that is waited for; and what has arrived was its answer.
Answer ==
    ~closed =>
      /\ wire # <<>> => /\ Len(wire) = 1
                        /\ request.future = "wait" /\ request.taken
                        /\ Right(Head(wire))
      /\ (request.future = "got" /\ step[lock.holder] = "command") =>
           request.frame = Over(sent, known)

\* Nothing is on its way and nothing has arrived.
LEMMA QuietAnswer ==
  ASSUME Shape, Answer, closed' = closed,
         wire' = <<>> \/ (wire' = wire /\ ~(request.future = "wait" /\ request.taken)),
         request'.future # "got"
  PROVE  Answer'
  BY DEF Answer, Shape, TypeOK

LEMMA InitAnswer == Init => Answer
  BY DEF Init, Answer, NoRequest

LEMMA NextAnswer == Shape /\ Answer /\ [Next]_vars => Answer'
<1> SUFFICES ASSUME Shape, Answer, [Next]_vars PROVE Answer'
    OBVIOUS
<1> USE NamesAssumption
<1>0. /\ request \in Requests /\ wire \in Seq(Messages)
      /\ step \in [Tasks -> Steps] /\ lock.holder \in Tasks \cup {None}
      /\ \A t \in Tasks : step[t] \in Working => lock.holder = t
      /\ lock.holder = None => request.future = "none"
      /\ NoRequest.future = "none" /\ NewRequest.future = "wait"
      /\ Sends \subseteq Tasks /\ Poll \in Tasks
  BY DEF Shape, TypeOK, Steps, Requests, Frames, Messages, NoRequest, NewRequest, Tasks
<1>1. ASSUME NEW t, Connects(t) PROVE request'.future # "got"
  BY <1>0, <1>1 DEF Connects, Asks
<1>2. ASSUME NEW t, Disconnects(t) \/ Drops(t, lock.queue) PROVE request'.future # "got" /\ wire' = <<>>
  BY <1>0, <1>2 DEF Disconnects, Drops, Forgets
<1>3. ASSUME NEW t, NEW q, NEW p, NEW w, Returns(t, q, p, w) PROVE request'.future # "got"
  BY <1>0, <1>1, <1>3 DEF Returns, Commands
<1>4. ASSUME NEW t \in Tasks, Established(t) \/ Notifying(t) PROVE Answer'
  <2>1. step[lock.holder] \in {"connect", "notify"}
    <3>1. step[t] \in {"connect", "notify"}
      BY <1>4 DEF Established, Notifying
    <3> QED BY <1>0, <3>1 DEF Working
  <2>2. request.future = "none"
    BY <1>0, <2>1 DEF Shape, Asking
  <2>3. request'.future # "got" /\ wire' = wire /\ closed' = closed
    BY <1>0, <1>4, <2>2 DEF Established, Notifying, Asks
  <2> QED BY <2>2, <2>3, QuietAnswer
<1>5. ASSUME NEW t \in Tasks, Raises(t) \/ Dropped(t) PROVE Answer'
  <2>1. step[lock.holder] = "drop"
    BY <1>0, <1>5 DEF Raises, Dropped, Working
  <2>2. request.future = "none"
    BY <1>0, <2>1 DEF Shape, Asking
  <2>3. request' = request /\ wire' = wire /\ closed' = closed
    BY <1>5 DEF Raises, Dropped
  <2> QED BY <2>2, <2>3, QuietAnswer
<1>6. ASSUME NEW t \in Tasks, WakeDrop(t) PROVE Answer'
  BY <1>0, <1>6, QuietAnswer DEF WakeDrop, Drops, Forgets
\* Steps that leave what is under way alone.
<1>7. ASSUME UNCHANGED <<request, wire, sent, known, closed>>,
             lock'.holder = lock.holder,
             lock.holder # None => step'[lock.holder] = step[lock.holder]
      PROVE  Answer'
  <2>1. wire # <<>> => request.future = "wait" \/ closed
    BY DEF Answer
  <2>2. CASE request.future = "none"
    BY <1>7, <2>2, QuietAnswer
  <2>3. CASE request.future # "none"
    BY <1>0, <1>7, <2>3 DEF Answer, Right
  <2> QED BY <2>2, <2>3
<1>8. ASSUME NEW t \in Tasks, step[t] \notin Working, Goes(t, "lock"),
             Takes(lock.holder, Append(lock.queue, t)),
             UNCHANGED <<request, wire, sent, known, closed>>
      PROVE  Answer'
  <2>1. lock'.holder = lock.holder
    BY <1>8 DEF Takes
  <2>2. lock.holder # None => step'[lock.holder] = step[lock.holder]
    BY <1>0, <1>8 DEF Goes, Shape
  <2> QED BY <1>7, <1>8, <2>1, <2>2
<1>9. ASSUME NEW t \in Sends, Call(t) PROVE Answer'
  <2>1. CASE lock.holder = None /\ lock.queue = <<>>
    <3>1. Connects(t)
      BY <1>9, <2>1 DEF Call, Commands
    <3> QED BY <1>0, <1>1, <1>9, <2>1, <3>1, QuietAnswer DEF Call
  <2>2. CASE ~(lock.holder = None /\ lock.queue = <<>>)
    BY <1>0, <1>8, <1>9, <2>2 DEF Call, Resting, Working
  <2> QED BY <2>1, <2>2
<1>10. ASSUME NEW t \in Sends, WakeSend(t) PROVE Answer'
  <2>1. request'.future # "got"
    <3>1. CASE pending = Nothing
      BY <1>3, <1>10, <3>1 DEF WakeSend
    <3>2. CASE pending # Nothing
      BY <1>1, <1>10, <3>2 DEF WakeSend, Commands
    <3> QED BY <3>1, <3>2
  <2> QED BY <1>0, <1>10, <2>1, QuietAnswer DEF WakeSend
<1>11. ASSUME NEW t \in Sends, CommandAnswered(t) PROVE Answer'
  <2>1. request'.future # "got"
    BY <1>3, <1>11 DEF CommandAnswered
  <2> QED BY <1>11, <2>1, QuietAnswer DEF CommandAnswered
<1>12. ASSUME NEW t \in Sends, SendFails(t) PROVE Answer'
  BY <1>2, <1>12, QuietAnswer DEF SendFails
<1>13. CASE StartPoll
  <2>1. CASE lock.holder = None /\ lock.queue = <<>>
    BY <1>0, <1>1, <1>13, <2>1, QuietAnswer DEF StartPoll
  <2>2. CASE ~(lock.holder = None /\ lock.queue = <<>>)
    BY <1>0, <1>8, <1>13, <2>2 DEF StartPoll, Resting, Working
  <2> QED BY <2>1, <2>2
<1>14. CASE WakePoll
  BY <1>0, <1>1, <1>14, QuietAnswer DEF WakePoll
<1>15. CASE InfoAnswered \/ StateAnswered
  BY <1>0, <1>15, QuietAnswer DEF InfoAnswered, StateAnswered
<1>16. CASE PollFails
  BY <1>2, <1>16, QuietAnswer DEF PollFails
<1>17. CASE PollCancelled \/ Unload
  BY <1>17 DEF PollCancelled, Unload, Answer
<1>18. CASE TimerFires
  <2>1. CASE lock.holder # None
    BY <1>7, <1>18, <2>1 DEF TimerFires
  <2>2. CASE lock.holder = None
    BY <1>0, <1>18, <2>2, QuietAnswer DEF TimerFires, Drops, Forgets
  <2> QED BY <2>1, <2>2
<1>19. CASE Handle
  <2>1. /\ request.future = "wait" /\ ~request.taken /\ lock.holder # None
        /\ request' = [request EXCEPT !.taken = TRUE]
        /\ UNCHANGED <<lock, step, sent, known, closed>>
    BY <1>0, <1>19 DEF Handle
  <2>2. request'.future = "wait" /\ request'.taken
    BY <1>0, <2>1 DEF Requests
  <2>3. wire = <<>> \/ closed
    BY <2>1 DEF Answer
  <2> DEFINE m == IF step[lock.holder] = "info" THEN [type |-> "info", frame |-> None]
                  ELSE [type |-> "state", frame |-> device']
  <2>4. wire' = wire \/ wire' = Append(wire, m)
    BY <1>19 DEF Handle
  <2>5. Right(m)
    <3>1. step[lock.holder] = "command" => device' = Over(sent, known)
      BY <1>19 DEF Handle
    <3> QED BY <3>1 DEF Right
  <2> HIDE DEF m
  <2>6. CASE wire = <<>>
    BY <2>1, <2>2, <2>4, <2>5, <2>6 DEF Answer, Right
  <2>7. CASE closed
    BY <2>1, <2>7 DEF Answer
  <2> QED BY <2>3, <2>6, <2>7
<1>20. CASE Notified
  <2>1. /\ wire # <<>> /\ wire' = Tail(wire)
        /\ UNCHANGED <<lock, step, sent, known, closed>>
    BY <1>20 DEF Notified
  <2>2. CASE closed
    BY <2>1, <2>2 DEF Answer
  <2>3. CASE ~closed
    <3>1. Len(wire) = 1 /\ request.future = "wait" /\ Right(Head(wire))
      BY <2>1, <2>3 DEF Answer
    <3>2. wire' = <<>>
      BY <1>0, <2>1, <3>1
    <3>3. request' = [request EXCEPT !.future = "got", !.frame = Head(wire).frame]
      BY <1>20, <3>1 DEF Notified, Right
    <3>4. request'.frame = Head(wire).frame
      BY <1>0, <3>3 DEF Requests
    <3> QED BY <2>1, <3>1, <3>2, <3>4 DEF Answer, Right
  <2> QED BY <2>2, <2>3
<1>21. CASE LinkLost
  <2>1. wire' = <<>> /\ UNCHANGED <<lock, step, sent, known, closed>>
    BY <1>21 DEF LinkLost
  <2>2. request'.future = "got" => request' = request
    BY <1>0, <1>21 DEF LinkLost, Requests
  <2> QED BY <2>1, <2>2 DEF Answer
<1>22. CASE Remote \/ UNCHANGED vars
  BY <1>7, <1>22 DEF Remote, vars
<1> QED BY <1>4, <1>5, <1>6, <1>9, <1>10, <1>11, <1>12, <1>13, <1>14, <1>15, <1>16, <1>17,
           <1>18, <1>19, <1>20, <1>21, <1>22 DEF Next

\* No command takes the late answer to an earlier request for its own.
THEOREM AnswersAreOurs == Spec => []AnswerIsOurs
<1>1. Init => Answer
  BY InitAnswer
<1>2. Shape /\ Answer /\ [Next]_vars => Answer'
  BY NextAnswer
<1>3. Shape /\ Answer => AnswerIsOurs
  BY DEF Shape, TypeOK, Answer, AnswerIsOurs, Tasks, Working
<1> QED BY <1>1, <1>2, <1>3, ShapeInvariant, PTL DEF Spec

-----------------------------------------------------------------------------
(* The calls *)

SendSteps == {"connect", "notify", "command"}
Ended == Resting \cup {"drop"}

Sending == lock.holder \in Sends /\ step[lock.holder] \in SendSteps

\* What a call wants is pending or under way; the caller with the lock has all of
\* it under way, and one that has ended wants nothing; what is pending is under
\* way or somebody waits to send it.
Calls ==
    /\ \A u \in Sends, k \in Keys : want[u][k] # None =>
         pending[k] = want[u][k] \/ (Sending /\ sent[k] = want[u][k])
    /\ \A u \in Sends : step[u] \in SendSteps =>
         \A k \in Keys : want[u][k] # None => sent[k] = want[u][k]
    /\ \A u \in Sends : step[u] \in Ended => want[u] = Nothing
    /\ \A k \in Keys : pending[k] # None =>
         (\E u \in Sends : step[u] = "lock") \/ (Sending /\ pending[k] = sent[k])

-----------------------------------------------------------------------------
(* What the steps do to the calls *)

\* A call sets something, then it sends or waits for the lock.
LEMMA SetCalls ==
  ASSUME Shape, NEW t \in Sends, NEW p \in Partial, NEW w \in [Sends -> Partial],
         NEW g \in Changes, Sets(t, g, p, w),
         \A u \in Sends : u # t => step'[u] = step[u],
         \A u \in Sends, k \in Keys :
           w[u][k] # None => p[k] = w[u][k] \/ (Sending' /\ sent'[k] = w[u][k]),
         \A u \in Sends \ {t} : step[u] \in SendSteps =>
           \A k \in Keys : w[u][k] # None => sent'[k] = w[u][k],
         \A u \in Sends \ {t} : step[u] \in Ended => w[u] = Nothing,
         step'[t] = "lock" \/ (step'[t] \in SendSteps /\ Sending' /\ sent' = pending')
  PROVE  Calls'
<1>1. g \in Partial
  BY DEF Changes
<1>2. \A k \in Keys : pending'[k] = IF g[k] = None THEN p[k] ELSE g[k]
  BY DEF Sets, Over
<1>3. \A u \in Sends, k \in Keys :
        want'[u][k] = IF g[k] = None THEN w[u][k]
                      ELSE IF u = t \/ w[u][k] = g[k] THEN g[k] ELSE None
  BY DEF Sets
<1>4. \A u \in Sends : want'[u] = [k \in Keys |-> want'[u][k]]
  BY DEF Sets
<1>5. \A u \in Sends, k \in Keys : want'[u][k] # None =>
        pending'[k] = want'[u][k] \/ (Sending' /\ sent'[k] = want'[u][k])
  BY <1>2, <1>3
<1>6. \A u \in Sends : step'[u] \in SendSteps =>
        \A k \in Keys : want'[u][k] # None => sent'[k] = want'[u][k]
  <2>1. ASSUME NEW u \in Sends \ {t}, step[u] \in SendSteps, NEW k \in Keys, want'[u][k] # None
        PROVE  sent'[k] = want'[u][k]
    BY <1>3, <2>1
  <2>2. ASSUME step'[t] \in SendSteps, NEW k \in Keys, want'[t][k] # None
        PROVE  sent'[k] = want'[t][k]
    BY <1>5, <2>2 DEF SendSteps
  <2> QED BY <2>1, <2>2
<1>7. \A u \in Sends : step'[u] \in Ended => want'[u] = Nothing
  <2>1. step'[t] \notin Ended
    BY DEF SendSteps, Ended, Resting
  <2>2. ASSUME NEW u \in Sends \ {t}, w[u] = Nothing PROVE want'[u] = Nothing
    <3>1. \A k \in Keys : want'[u][k] = None
      BY <1>3, <2>2 DEF Nothing
    <3> QED BY <1>4, <3>1 DEF Nothing
  <2> QED BY <2>1, <2>2
<1>8. \A k \in Keys : pending'[k] # None =>
        (\E u \in Sends : step'[u] = "lock") \/ (Sending' /\ pending'[k] = sent'[k])
  OBVIOUS
<1> QED BY <1>5, <1>6, <1>7, <1>8 DEF Calls

\* A step that is not a call's, or one that leaves it sending, or ended.
LEMMA SameCalls ==
  ASSUME Shape, Calls, UNCHANGED <<pending, sent, want>>,
         \A u \in Sends : \/ step'[u] = step[u]
                          \/ step[u] \in SendSteps /\ step'[u] \in SendSteps
                          \/ step[u] \in Ended /\ step'[u] \in Ended,
         Sending => lock'.holder = lock.holder
  PROVE  Calls'
<1>1. Sending => Sending'
  BY DEF Sending, SendSteps, Ended, Resting
<1>2. \A u \in Sends : /\ step'[u] \in SendSteps => step[u] \in SendSteps
                       /\ step'[u] \in Ended => step[u] \in Ended
                       /\ step[u] = "lock" => step'[u] = "lock"
  BY DEF SendSteps, Ended, Resting
<1> QED BY <1>1, <1>2 DEF Calls

\* A command is settled.
LEMMA SettledCalls ==
  ASSUME Shape, Calls, NEW t \in Sends, step[t] \in SendSteps
  PROVE  /\ Unsettled \in [Sends -> Partial] /\ Remains \in Partial
         /\ \A u \in Sends, k \in Keys :
              Unsettled[u][k] # None => Remains[k] = Unsettled[u][k]
         /\ \A u \in Sends : u = t \/ step[u] \in Ended => Unsettled[u] = Nothing
         /\ \A k \in Keys : Remains[k] # None => \E u \in Sends \ {t} : step[u] = "lock"
<1>1. pending \in Partial /\ sent \in Partial /\ want \in [Sends -> Partial]
  BY DEF Shape, TypeOK
<1>2. \A u \in Sends, k \in Keys :
        Unsettled[u][k] = IF sent[k] # None /\ want[u][k] = sent[k] THEN None ELSE want[u][k]
  BY DEF Unsettled, Carries
<1>3. \A k \in Keys : Remains[k] = IF pending[k] = sent[k] THEN None ELSE pending[k]
  BY DEF Remains
<1>4. Unsettled \in [Sends -> Partial] /\ Remains \in Partial
  BY <1>1 DEF Unsettled, Remains, Partial
<1>5. \A u \in Sends, k \in Keys : Unsettled[u][k] # None => Remains[k] = Unsettled[u][k]
  BY <1>2, <1>3 DEF Calls
<1>6. ASSUME NEW u \in Sends, u = t \/ step[u] \in Ended PROVE Unsettled[u] = Nothing
  <2>1. \A k \in Keys : Unsettled[u][k] = None
    <3>1. CASE u = t
      BY <1>2, <3>1 DEF Calls
    <3>2. CASE step[u] \in Ended
      BY <1>2, <3>2 DEF Calls, Nothing
    <3> QED BY <1>6, <3>1, <3>2
  <2>2. Unsettled[u] = [k \in Keys |-> Unsettled[u][k]]
    BY DEF Unsettled
  <2> QED BY <2>1, <2>2 DEF Nothing
<1>7. \A k \in Keys : Remains[k] # None => \E u \in Sends \ {t} : step[u] = "lock"
  BY <1>3 DEF Calls, SendSteps
<1> QED BY <1>4, <1>5, <1>6, <1>7

\* A call ends well, and perhaps sends once more.
LEMMA ReturnedCalls ==
  ASSUME Shape, NEW t \in Sends, NEW q \in Seq(Tasks), NEW p \in Partial,
         NEW w \in [Sends -> Partial], Returns(t, q, p, w), Alone(t),
         \A u \in Sends, k \in Keys : w[u][k] # None => p[k] = w[u][k],
         \A u \in Sends : u = t \/ step[u] \in Ended => w[u] = Nothing,
         \A k \in Keys : p[k] # None => \E u \in Sends \ {t} : step[u] = "lock"
  PROVE  Calls'
<1>1. Moved(t) /\ step'[t] \in {"returned", "lock", "connect", "command"}
  BY ReturnsMoves
<1>2. t \in Tasks /\ Sends \subseteq Tasks
  BY DEF Tasks
<1>3. \A u \in Sends : u # t => step'[u] = step[u]
  BY <1>1, <1>2 DEF Moved, Shape, TypeOK
<1>4. \A u \in Sends \ {t} : step[u] \notin SendSteps
  BY <1>2 DEF Alone, SendSteps, Working
<1>5. CASE ~again[t]
  <2>1. step'[t] = "returned" /\ pending' = p /\ want' = w
    BY <1>2, <1>5 DEF Returns, Goes, Shape, TypeOK
  <2>2. \A u \in Sends : step'[u] \notin SendSteps
    BY <1>3, <1>4, <2>1 DEF SendSteps
  <2>3. \A u \in Sends : step'[u] \in Ended => want'[u] = Nothing
    BY <1>3, <2>1
  <2>4. \A k \in Keys : pending'[k] # None => \E u \in Sends : step'[u] = "lock"
    BY <1>3, <2>1
  <2> QED BY <2>1, <2>2, <2>3, <2>4 DEF Calls
<1>6. CASE again[t]
  <2>1. PICK g \in Changes : Sets(t, g, p, w)
    BY <1>6 DEF Returns
  <2>2. CASE q = <<>>
    <3>1. Connects(t) /\ sent' = pending'
      BY <1>6, <2>2 DEF Returns, Commands
    <3>2. step'[t] \in {"connect", "info", "state", "command"}
      BY <1>2, <3>1 DEF Connects, Asks, Goes, Shape, TypeOK
    <3>3. step'[t] \in SendSteps /\ Sending'
      BY <1>1, <3>2 DEF SendSteps, Sending, Moved, Working
    <3> QED BY <1>3, <1>4, <2>1, <3>1, <3>3, SetCalls
  <2>3. CASE q # <<>>
    <3>1. step'[t] = "lock"
      BY <1>2, <1>6, <2>3 DEF Returns, Goes, Shape, TypeOK
    <3> QED BY <1>3, <1>4, <2>1, <3>1, SetCalls
  <2> QED BY <2>2, <2>3
<1> QED BY <1>5, <1>6 DEF Shape, TypeOK

-----------------------------------------------------------------------------
(* The calls are invariant *)

LEMMA InitCalls == Init => Calls
<1> SUFFICES ASSUME Init PROVE Calls
    OBVIOUS
<1>1. \A u \in Sends : step[u] = "rest" /\ want[u] = Nothing
  BY DEF Init, Tasks
<1> QED BY <1>1 DEF Calls, Init, Nothing, SendSteps

LEMMA NextCalls == Shape /\ Calls /\ [Next]_vars => Calls'
<1> SUFFICES ASSUME Shape, Calls, [Next]_vars PROVE Calls'
    OBVIOUS
<1> USE NamesAssumption
<1>0. /\ lock.holder \in Tasks \cup {None} /\ lock.queue \in Seq(Tasks)
      /\ lock.queue # <<>> => Tail(lock.queue) \in Seq(Tasks)
      /\ <<>> \in Seq(Tasks)
      /\ step \in [Tasks -> Steps]
      /\ \A t \in Tasks : step[t] \in Working => lock.holder = t
      /\ Sends \subseteq Tasks /\ Poll \in Tasks /\ Idle \in Tasks /\ Shutdown \in Tasks
      /\ pending \in Partial /\ want \in [Sends -> Partial]
  BY DEF Shape, TypeOK, Steps, Tasks
<1>00. lock.holder \notin Sends => ~Sending
  BY DEF Sending
\* Steps of the poll, the timer and the unload.
<1>1. ASSUME NEW t \in {Poll, Idle, Shutdown}, UNCHANGED <<pending, sent, calls>>,
             NEW s, Goes(t, s), lock.holder \in {t, None} \/ lock'.holder = lock.holder
      PROVE  Calls'
  <2>1. \A u \in Sends : step'[u] = step[u]
    BY <1>0, <1>1 DEF Goes
  <2>2. Sending => lock'.holder = lock.holder
    BY <1>00, <1>1
  <2> QED BY <1>1, <2>1, <2>2, SameCalls DEF calls
<1>2. ASSUME NEW t \in Tasks, Established(t) \/ Notifying(t) PROVE Calls'
  <2>1. PICK s : Goes(t, s)
    BY <1>2 DEF Established, Notifying, Asks
  <2>2. t \in Sends => step[t] \in SendSteps /\ s \in SendSteps
    <3>1. ASSUME t \in Sends, Established(t) PROVE step'[t] = "notify" /\ step[t] = "connect"
      BY <1>0, <3>1 DEF Established, Goes
    <3>2. ASSUME t \in Sends, Notifying(t) PROVE step'[t] = "command" /\ step[t] = "notify"
      BY <1>0, <3>2 DEF Notifying, Asks, Goes
    <3>3. step'[t] = s
      BY <1>0, <2>1 DEF Goes
    <3> QED BY <1>2, <3>1, <3>2, <3>3 DEF SendSteps
  <2>3. \A u \in Sends : step'[u] = step[u] \/ (step[u] \in SendSteps /\ step'[u] \in SendSteps)
    BY <1>0, <2>1, <2>2 DEF Goes
  <2>4. lock' = lock /\ UNCHANGED <<pending, sent, want>>
    BY <1>2 DEF Established, Notifying, calls
  <2> QED BY <2>3, <2>4, SameCalls
<1>3. ASSUME NEW t \in Tasks, Raises(t) \/ Dropped(t) PROVE Calls'
  <2>1. PICK s \in {"raised", "returned"} : Goes(t, s)
    BY <1>3 DEF Raises, Dropped
  <2>2. step[t] = "drop" /\ lock.holder = t /\ UNCHANGED <<pending, sent, want>>
    BY <1>0, <1>3 DEF Raises, Dropped, Working, calls
  <2>3. \A u \in Sends : step'[u] = step[u] \/ (step[u] \in Ended /\ step'[u] \in Ended)
    BY <1>0, <2>1, <2>2 DEF Goes, Ended, Resting
  <2>4. ~Sending
    BY <2>2 DEF Sending, SendSteps
  <2> QED BY <2>2, <2>3, <2>4, SameCalls
<1>4. ASSUME NEW t \in Tasks, WakeDrop(t) PROVE Calls'
  BY <1>1, <1>4 DEF WakeDrop, Drops
<1>5. ASSUME NEW t \in Sends, Call(t) PROVE Calls'
  <2> DEFINE w == [want EXCEPT ![t] = Nothing]
  <2>1. PICK g \in Changes : Sets(t, g, pending, w)
    BY <1>5 DEF Call
  <2>2. w \in [Sends -> Partial] /\ \A u \in Sends : w[u] = IF u = t THEN Nothing ELSE want[u]
    BY <1>0, Values
  <2> HIDE DEF w
  <2>3. \A u \in Sends, k \in Keys : w[u][k] # None =>
          u # t /\ (pending[k] = w[u][k] \/ (Sending /\ sent[k] = w[u][k]))
    BY <2>2 DEF Calls, Nothing
  <2>4. \A u \in Sends \ {t} : step[u] \in Ended => w[u] = Nothing
    BY <2>2 DEF Calls
  <2>5. PICK s : Goes(t, s)
    BY <1>5 DEF Call, Commands, Connects, Asks
  <2>6. \A u \in Sends : u # t => step'[u] = step[u]
    BY <1>0, <2>5 DEF Goes
  <2>7. CASE lock.holder = None /\ lock.queue = <<>>
    <3>1. sent' = pending' /\ Connects(t) /\ Takes(t, <<>>)
      BY <1>5, <2>7 DEF Call, Commands
    <3>2. step'[t] \in {"connect", "command"}
      BY <1>0, <3>1 DEF Connects, Asks, Goes
    <3>3. step'[t] \in SendSteps /\ Sending'
      BY <3>1, <3>2 DEF SendSteps, Sending, Takes
    <3>4. ~Sending /\ \A u \in Sends : step[u] \notin SendSteps
      BY <1>0, <1>00, <2>7 DEF SendSteps, Working
    <3> QED BY <1>0, <2>1, <2>2, <2>3, <2>4, <2>6, <3>1, <3>3, <3>4, SetCalls
  <2>8. CASE ~(lock.holder = None /\ lock.queue = <<>>)
    <3>1. lock'.holder = lock.holder /\ Goes(t, "lock") /\ sent' = sent
      BY <1>5, <2>8 DEF Call, Takes
    <3>2. step'[t] = "lock"
      BY <1>0, <3>1 DEF Goes
    <3>3. Sending => Sending'
      BY <1>5, <2>6, <3>1 DEF Sending, SendSteps, Call, Resting
    <3>4. \A u \in Sends \ {t} : step[u] \in SendSteps =>
            \A k \in Keys : w[u][k] # None => sent'[k] = w[u][k]
      BY <2>2, <3>1 DEF Calls
    <3> QED BY <1>0, <2>1, <2>2, <2>3, <2>4, <2>6, <3>1, <3>2, <3>3, <3>4, SetCalls
  <2> QED BY <2>7, <2>8
<1>6. ASSUME NEW t \in Sends, WakeSend(t) PROVE Calls'
  <2>1. ~Sending /\ Alone(t) /\ Tail(lock.queue) \in Seq(Tasks) /\ lock.holder = None
    BY <1>0, <1>00, <1>6, Alones DEF WakeSend
  <2>2. \A u \in Sends : step[u] \notin SendSteps
    BY <1>0, <2>1 DEF SendSteps, Working
  <2>3. CASE pending = Nothing
    <3>1. Returns(t, Tail(lock.queue), pending, want)
      BY <1>6, <2>3 DEF WakeSend
    <3>2. \A u \in Sends, k \in Keys : want[u][k] = None /\ pending[k] = None
      BY <2>1, <2>3 DEF Calls, Nothing
    <3>3. \A u \in Sends : want[u] = Nothing
      BY <1>0, <3>2 DEF Partial, Nothing
    <3>4. \A u \in Sends, k \in Keys : want[u][k] # None => pending[k] = want[u][k]
      BY <3>2
    <3>5. \A k \in Keys : pending[k] # None => \E u \in Sends \ {t} : step[u] = "lock"
      BY <3>2
    <3>6. pending \in Partial /\ want \in [Sends -> Partial]
      BY <1>0
    <3>7. \A u \in Sends : u = t \/ step[u] \in Ended => want[u] = Nothing
      BY <3>3
    <3> DEFINE q == Tail(lock.queue)
    <3>8. Returns(t, q, pending, want) /\ q \in Seq(Tasks) /\ Alone(t)
      BY <2>1, <3>1
    <3> HIDE DEF q
    <3> QED BY <3>4, <3>5, <3>6, <3>7, <3>8, ReturnedCalls
  <2>4. CASE pending # Nothing
    <3>1. /\ sent' = pending /\ Connects(t) /\ Takes(t, Tail(lock.queue))
          /\ UNCHANGED <<pending, want>>
      BY <1>6, <2>4 DEF WakeSend, Commands
    <3>2. \A u \in Sends : u # t => step'[u] = step[u]
      BY <1>0, <3>1 DEF Connects, Asks, Goes
    <3>3. step'[t] \in {"connect", "command"}
      BY <1>0, <3>1 DEF Connects, Asks, Goes
    <3>4. step'[t] \in SendSteps /\ Sending'
      BY <3>1, <3>3 DEF SendSteps, Sending, Takes
    <3>5. step'[t] \notin Ended
      BY <3>3 DEF Ended, Resting
    <3> QED BY <2>1, <2>2, <3>1, <3>2, <3>4, <3>5 DEF Calls
  <2> QED BY <2>3, <2>4
<1>7. ASSUME NEW t \in Sends, CommandAnswered(t) PROVE Calls'
  <2>1. step[t] \in SendSteps /\ lock.holder = t /\ Alone(t)
    BY <1>0, <1>7, Alones DEF CommandAnswered, SendSteps, Working
  <2>2. Returns(t, lock.queue, Remains, Unsettled)
    BY <1>7 DEF CommandAnswered
  <2> QED BY <1>0, <2>1, <2>2, SettledCalls, ReturnedCalls
<1>8. ASSUME NEW t \in Sends, SendFails(t) PROVE Calls'
  <2>1. step[t] \in SendSteps /\ lock.holder = t /\ Alone(t)
    BY <1>0, <1>8, Alones DEF SendFails, SendSteps, Working
  <2>2. Disconnects(t) /\ pending' = Remains /\ want' = Unsettled
    BY <1>8 DEF SendFails
  <2>3. PICK s \in Ended : Goes(t, s)
    BY <2>2 DEF Disconnects, Ended, Resting
  <2>4. \A u \in Sends : step'[u] = IF u = t THEN s ELSE step[u]
    BY <1>0, <2>3 DEF Goes
  <2>5. \A u \in Sends : step'[u] \notin SendSteps
    BY <1>0, <2>1, <2>4 DEF Alone, SendSteps, Working, Ended, Resting
  <2> QED BY <2>1, <2>2, <2>4, <2>5, SettledCalls DEF Calls
<1>9. CASE StartPoll
  <2>1. PICK s : Goes(Poll, s)
    BY <1>9 DEF StartPoll, Connects, Asks
  <2>2. lock.holder = None \/ lock'.holder = lock.holder
    BY <1>9 DEF StartPoll, Takes
  <2> QED BY <1>1, <1>9, <2>1, <2>2 DEF StartPoll
<1>10. CASE WakePoll
  <2>1. PICK s : Goes(Poll, s)
    BY <1>10 DEF WakePoll, Connects, Asks
  <2> QED BY <1>1, <1>10, <2>1 DEF WakePoll
<1>11. CASE InfoAnswered \/ StateAnswered
  <2>1. lock.holder = Poll
    BY <1>0, <1>11 DEF InfoAnswered, StateAnswered, Working
  <2> QED BY <1>1, <1>11, <2>1 DEF InfoAnswered, StateAnswered
<1>12. CASE PollFails
  <2>1. lock.holder = Poll
    BY <1>0, <1>12 DEF PollFails, Working
  <2>2. PICK s : Goes(Poll, s)
    BY <1>12 DEF PollFails, Disconnects
  <2> QED BY <1>1, <1>12, <2>1, <2>2 DEF PollFails
<1>13. CASE PollCancelled
  <2>1. lock.holder = Poll \/ lock'.holder = lock.holder
    BY <1>0, <1>13 DEF PollCancelled, Takes, Working
  <2> QED BY <1>1, <1>13, <2>1 DEF PollCancelled
<1>14. CASE TimerFires
  <2>1. CASE lock.holder # None
    BY <1>14, <2>1, SameCalls DEF TimerFires, calls
  <2>2. CASE lock.holder = None
    <3>1. PICK s : Goes(Idle, s)
      BY <1>14, <2>2 DEF TimerFires, Drops
    <3> QED BY <1>1, <1>14, <2>2, <3>1 DEF TimerFires
  <2> QED BY <2>1, <2>2
<1>15. CASE Unload
  <2>1. PICK s : Goes(Shutdown, s)
    BY <1>15 DEF Unload, Drops
  <2>2. lock.holder = None \/ lock'.holder = lock.holder
    BY <1>15 DEF Unload, Takes
  <2> QED BY <1>1, <1>15, <2>1, <2>2 DEF Unload
<1>16. CASE Handle \/ Notified \/ LinkLost \/ Remote \/ UNCHANGED vars
  BY <1>16, SameCalls DEF Handle, Notified, LinkLost, Remote, vars, calls
<1> QED BY <1>2, <1>3, <1>4, <1>5, <1>6, <1>7, <1>8, <1>9, <1>10, <1>11, <1>12, <1>13, <1>14,
           <1>15, <1>16 DEF Next

LEMMA CallsInvariant == Spec => []Calls
<1>1. Init => Calls
  BY InitCalls
<1>2. Shape /\ Calls /\ [Next]_vars => Calls'
  BY NextCalls
<1> QED BY <1>1, <1>2, ShapeInvariant, PTL DEF Spec

\* When a call returns, each value it set has been answered, was refused to an
\* earlier command, or was replaced by a later call.
THEOREM NoChangeForgotten == Spec => []NotForgotten
<1>1. Calls => NotForgotten
  BY DEF Calls, NotForgotten, Ended, Resting
<1> QED BY <1>1, CallsInvariant, PTL

\* With no call under way nothing is pending.
THEOREM NothingIsMasked == Spec => []NothingMasked
<1>1. Shape /\ Calls => NothingMasked
  <2> SUFFICES ASSUME Shape, Calls, \A t \in Sends : step[t] \in Resting
               PROVE  pending = Nothing
    BY DEF NothingMasked
  <2>1. ~Sending /\ \A u \in Sends : step[u] # "lock"
    BY DEF Sending, SendSteps, Resting
  <2>2. \A k \in Keys : pending[k] = None
    BY <2>1 DEF Calls
  <2>3. pending \in Partial
    BY DEF Shape, TypeOK
  <2> QED BY <2>2, <2>3 DEF Partial, Nothing
<1> QED BY <1>1, ShapeInvariant, CallsInvariant, PTL

=============================================================================
