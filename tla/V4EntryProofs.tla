---------------------------- MODULE V4EntryProofs ----------------------------
(***************************************************************************)
(* Proofs about the config entry of a Tion v4 account, for any number of   *)
(* keys, captcha pages and submissions: its types, the grace timer, the    *)
(* latch of the login that was asked for and the one e-mail of a login.    *)
(***************************************************************************)
EXTENDS V4Entry, TLAPS

\* What a login awaits belongs to the flow, or the flow has left it behind.
Logins ==
    /\ flow.step \in {"captcha", "code"} => flow.auth # None
    /\ \A p \in Posts : posts[p].at = "asking" => flow.auth # None /\ flow.step # "none"
    /\ \A s \in Submits : submit[s].at # "idle" /\ submit[s].left = None
                            => flow.auth # None /\ flow.step # "none"

\* Only a loaded entry renews for more than its start.
Renewing == cloud.caller \notin {"none", "start"} => Subscribed

\* A login waits for one token, before its e-mail.
Mails ==
    /\ \A p, q \in Posts : posts[p].at = "asking" /\ posts[q].at = "asking" => p = q
    /\ \A p \in Posts : posts[p].at # "asking" => posts[p].on = None
    /\ \A p \in Posts : posts[p].at = "asking" /\ posts[p].on = flow.auth => ~flow.mailed
    /\ \A p \in Posts : posts[p].at = "asking" => posts[p].on # None
    /\ flow.step = "captcha" => ~flow.mailed

\* The flow's actions, and the coordinator's.
Coordinates ==
    \/ GraceExpires \/ ChannelChanges \/ Refresh
    \/ RenewBegins \/ RenewOk \/ RenewRefused \/ RenewFails

Loads == SetupOk \/ SetupRefused \/ SetupFails \/ SetupAgain \/ Reload \/ Unloaded

LogsIn ==
    \/ Dismiss \/ Password
    \/ \E p \in Posts : Post(p) \/ Configure(p) \/ CodeSent(p)
    \/ \E s \in Submits : Code(s) \/ CodeFails(s) \/ CodeOk(s) \/ Finish(s)

-----------------------------------------------------------------------------
(* The flow's types *)

Flows ==
    /\ flow \in [step : {"none", "form", "captcha", "code"}, auth : Keys \cup {None},
                 mailed : BOOLEAN]
    /\ posts \in [Posts -> [at : {"idle", "body", "asking", "left"}, on : Keys \cup {None}]]
    /\ submit \in [Submits -> [at : {"idle", "check", "token"}, on : Keys \cup {None},
                               left : Keys \cup {None}]]
    /\ gone \in BOOLEAN
    /\ Logins
    /\ Mails

Entries ==
    /\ entry \in [state : {"setup", "loaded", "unloading", "failed", "retry"},
                  key : Keys \cup {None}, session : Keys \cup {None}]
    /\ cloud \in [key : Keys \cup {None}, session : Keys \cup {None},
                  caller : Callers, error : {"none", "refused", "stale"},
                  connected : BOOLEAN]
    /\ coord \in [up : BOOLEAN, grace : BOOLEAN, opened : BOOLEAN]
    /\ Renewing
    /\ Quiet
    /\ GraceHonest

LEMMA FlowStarts ==
  ASSUME Flows, StartReauth
  PROVE  Flows' /\ flow'.step # "none"
  BY NoneAssumption DEF Flows, Logins, Mails, StartReauth, NoFlow

LEMMA FlowEnds ==
  ASSUME Flows, NEW mine, EndFlow(mine), gone' \in BOOLEAN,
         mine \in [Submits -> [at : {"idle", "check", "token"}, on : Keys \cup {None},
                               left : Keys \cup {None}]],
         \A s \in Submits : mine[s] = submit[s] \/ mine[s] = NoSubmit
  PROVE  Flows'
<1>1. flow' = NoFlow
  BY DEF EndFlow
<1>2. /\ posts' \in [Posts -> [at : {"idle", "body", "asking", "left"}, on : Keys \cup {None}]]
      /\ \A p \in Posts : posts'[p].at # "asking" /\ posts'[p].on = None
  BY DEF Flows, Mails, EndFlow, NoPost
<1>3. /\ submit' \in [Submits -> [at : {"idle", "check", "token"}, on : Keys \cup {None},
                                  left : Keys \cup {None}]]
      /\ \A s \in Submits : submit'[s].at # "idle" => submit'[s].left # None
  <2> SUFFICES ASSUME NEW s \in Submits
               PROVE  /\ submit'[s] \in [at : {"idle", "check", "token"}, on : Keys \cup {None},
                                         left : Keys \cup {None}]
                      /\ submit'[s].at # "idle" => submit'[s].left # None
    BY DEF EndFlow
  <2>1. CASE mine[s].at # "idle" /\ mine[s].left = None
    <3>1. mine[s] = submit[s]
      BY <2>1 DEF NoSubmit
    <3>2. flow.auth # None
      BY <2>1, <3>1 DEF Flows, Logins
    <3> QED
      BY <2>1, <3>2 DEF EndFlow, Flows
  <2>2. CASE ~(mine[s].at # "idle" /\ mine[s].left = None)
    BY <2>2 DEF EndFlow
  <2> QED
    BY <2>1, <2>2
<1> QED
  BY <1>1, <1>2, <1>3 DEF Flows, Logins, Mails, NoFlow

LEMMA FlowStays ==
  ASSUME Flows, UNCHANGED flows
  PROVE  Flows'
  BY DEF Flows, Logins, Mails, flows

LEMMA FlowSyncs ==
  ASSUME Flows, NEW e, NEW c, SyncReauth(e, c)
  PROVE  Flows'
<1>1. StartReauth \/ UNCHANGED flows \/ (EndFlow(submit) /\ gone' = FALSE)
  BY DEF SyncReauth
<1> QED
  BY <1>1, FlowStarts, FlowStays, FlowEnds DEF Flows

LEMMA FlowAsked ==
  ASSUME Flows, RequestReauth
  PROVE  Flows'
  BY FlowStarts, FlowStays DEF RequestReauth, flows

LEMMA FlowUpdates ==
  ASSUME Flows, NEW x, NEW e, HandleUpdate(x, e)
  PROVE  Flows'
  BY FlowSyncs, FlowStays DEF HandleUpdate, flows

LEMMA FlowStep ==
  ASSUME Flows, [Next]_vars
  PROVE  Flows'
<1>1. CASE Coordinates
  <2>1. CASE GraceExpires \/ RenewBegins
    BY <2>1, FlowStays DEF GraceExpires, RenewBegins
  <2>2. CASE ChannelChanges
    BY <2>2, FlowUpdates DEF ChannelChanges
  <2>3. CASE Refresh
    BY <2>3, FlowSyncs DEF Refresh
  <2>4. CASE RenewOk
    BY <2>4, FlowUpdates DEF RenewOk
  <2>5. CASE RenewRefused
    <3>1. \/ StartReauth \/ RequestReauth \/ UNCHANGED flows
          \/ HandleUpdate(cloud.connected, "refused")
      BY <2>5 DEF RenewRefused
    <3> QED
      BY <3>1, FlowStarts, FlowAsked, FlowStays, FlowUpdates
  <2>6. CASE RenewFails
    <3>1. PICK e \in {"none", "stale", cloud.error} :
              SyncReauth(e, coord) \/ HandleUpdate(cloud.connected, e) \/ UNCHANGED flows
      BY <2>6 DEF RenewFails
    <3> QED
      BY <3>1, FlowSyncs, FlowStays, FlowUpdates
  <2> QED
    BY <1>1, <2>1, <2>2, <2>3, <2>4, <2>5, <2>6 DEF Coordinates
<1>2. CASE Loads
  <2>1. CASE SetupRefused
    BY <2>1, FlowStarts DEF SetupRefused
  <2>2. CASE Reload
    BY <2>2, FlowEnds DEF Reload, Flows
  <2>3. CASE SetupOk \/ SetupFails \/ SetupAgain \/ Unloaded
    BY <2>3, FlowStays DEF SetupOk, SetupFails, SetupAgain, Unloaded, flows
  <2> QED
    BY <1>2, <2>1, <2>2, <2>3 DEF Loads
<1>3. CASE Dismiss
  BY <1>3, FlowEnds DEF Dismiss, Flows
<1>4. CASE Password
  <2>1. PICK k \in Keys \ InUse : flow' = [step |-> "captcha", auth |-> k, mailed |-> FALSE]
    BY <1>4 DEF Password
  <2> QED
    BY <1>4, <2>1, NoneAssumption DEF Password, Flows, Logins, Mails
<1>5. ASSUME NEW p \in Posts, Post(p)
      PROVE  Flows'
  BY <1>5 DEF Post, Flows, Logins, Mails
<1>6. ASSUME NEW p \in Posts, Configure(p)
      PROVE  Flows'
  BY <1>6 DEF Configure, Accepts, NoPost, Flows, Logins, Mails
<1>7. ASSUME NEW p \in Posts, CodeSent(p)
      PROVE  Flows'
  <2>1. /\ posts' = [posts EXCEPT ![p] = NoPost]
        /\ UNCHANGED <<submit, gone>>
    BY <1>7 DEF CodeSent
  <2>2. /\ posts' \in [Posts -> [at : {"idle", "body", "asking", "left"}, on : Keys \cup {None}]]
        /\ posts'[p] = NoPost
        /\ \A q \in Posts \ {p} : posts'[q] = posts[q]
    BY <2>1 DEF Flows, NoPost
  <2>3. CASE posts[p].at = "left"
    BY <1>7, <2>1, <2>2, <2>3 DEF CodeSent, NoPost, Flows, Logins, Mails
  <2>4. CASE posts[p].at = "asking"
    <3>1. \A q \in Posts : posts'[q].at # "asking" /\ posts'[q].on = None
      BY <2>2, <2>4 DEF NoPost, Flows, Mails
    <3>2. /\ flow' \in [step : {"code", "form"}, auth : Keys \cup {None}, mailed : BOOLEAN]
          /\ flow'.auth = flow.auth
          /\ flow.auth # None
      BY <1>7, <2>4 DEF CodeSent, Flows, Logins
    <3> QED
      BY <2>1, <2>2, <3>1, <3>2 DEF Flows, Logins, Mails
  <2> QED
    BY <1>7, <2>3, <2>4 DEF CodeSent
<1>8. ASSUME NEW s \in Submits, Code(s)
      PROVE  Flows'
  BY <1>8 DEF Code, Flows, Logins, Mails
<1>9. ASSUME NEW s \in Submits, CodeFails(s)
      PROVE  Flows'
  <2> DEFINE mine == [submit EXCEPT ![s] = NoSubmit]
  <2>1. /\ mine \in [Submits -> [at : {"idle", "check", "token"}, on : Keys \cup {None},
                                 left : Keys \cup {None}]]
        /\ \A u \in Submits : mine[u] = submit[u] \/ mine[u] = NoSubmit
    BY DEF Flows, NoSubmit
  <2>2. CASE EndFlow(mine) /\ gone' = TRUE
    BY <2>1, <2>2, FlowEnds
  <2>3. CASE submit' = mine /\ UNCHANGED <<posts, gone>>
             /\ \/ UNCHANGED flow
                \/ /\ submit[s].left = None
                   /\ \E step \in {"code", "form"} : flow' = [flow EXCEPT !.step = step]
    BY <1>9, <2>1, <2>3 DEF CodeFails, NoSubmit, Flows, Logins, Mails
  <2> QED
    BY <1>9, <2>2, <2>3 DEF CodeFails
<1>10. ASSUME NEW s \in Submits, CodeOk(s)
       PROVE  Flows'
  BY <1>10 DEF CodeOk, Flows, Logins, Mails
<1>11. ASSUME NEW s \in Submits, Finish(s)
       PROVE  Flows'
  <2> DEFINE mine == [submit EXCEPT ![s] = NoSubmit]
  <2>1. /\ mine \in [Submits -> [at : {"idle", "check", "token"}, on : Keys \cup {None},
                                 left : Keys \cup {None}]]
        /\ \A u \in Submits : mine[u] = submit[u] \/ mine[u] = NoSubmit
    BY DEF Flows, NoSubmit
  <2>2. CASE EndFlow(mine) /\ gone' = TRUE
    BY <2>1, <2>2, FlowEnds
  <2>3. CASE submit' = mine /\ UNCHANGED <<flow, posts, gone>>
    BY <2>1, <2>3 DEF NoSubmit, Flows, Logins, Mails
  <2> QED
    BY <1>11, <2>2, <2>3 DEF Finish
<1>12. CASE UNCHANGED vars
  BY <1>12, FlowStays DEF vars, flows
<1> QED
  BY <1>1, <1>2, <1>3, <1>4, <1>5, <1>6, <1>7, <1>8, <1>9, <1>10, <1>11, <1>12
  DEF Next, Coordinates, Loads

-----------------------------------------------------------------------------
(* The entry, its cloud and its coordinator *)

LEMMA CoordSyncs ==
  ASSUME NEW e, NEW c \in [up : BOOLEAN, grace : BOOLEAN, opened : BOOLEAN], SyncReauth(e, c)
  PROVE  /\ coord' \in [up : BOOLEAN, grace : BOOLEAN, opened : BOOLEAN]
         /\ coord'.up = c.up /\ coord'.grace = c.grace
  BY DEF SyncReauth

LEMMA CoordUpdates ==
  ASSUME Entries, NEW x \in BOOLEAN, NEW e, HandleUpdate(x, e)
  PROVE  /\ coord' \in [up : BOOLEAN, grace : BOOLEAN, opened : BOOLEAN]
         /\ Subscribed => (coord'.grace <=> coord'.up /\ ~x)
         /\ ~Subscribed => UNCHANGED coord
<1>1. CASE ~Subscribed
  BY <1>1 DEF HandleUpdate, Entries
<1>2. CASE Subscribed
  <2>1. /\ Channel(x) \in [up : BOOLEAN, grace : BOOLEAN, opened : BOOLEAN]
        /\ Channel(x).grace <=> Channel(x).up /\ ~x
    BY <1>2 DEF Channel, Entries, GraceHonest
  <2>2. SyncReauth(e, Channel(x))
    BY <1>2 DEF HandleUpdate
  <2> QED
    BY <1>2, <2>1, <2>2, CoordSyncs
<1> QED
  BY <1>1, <1>2

LEMMA CoordAsked ==
  ASSUME Entries, RequestReauth
  PROVE  /\ coord' \in [up : BOOLEAN, grace : BOOLEAN, opened : BOOLEAN]
         /\ coord'.up = coord.up /\ coord'.grace = coord.grace
  BY DEF RequestReauth, Entries

LEMMA EntryStep ==
  ASSUME Flows, Entries, [Next]_vars
  PROVE  Entries'
<1> USE DEF Callers, Subscribed
<1>1. CASE GraceExpires
  <2>1. Subscribed
    BY <1>1 DEF GraceExpires, Entries, Quiet, NoCoord
  <2>2. /\ coord' \in [up : BOOLEAN, grace : BOOLEAN, opened : BOOLEAN]
        /\ ~coord'.grace /\ ~coord'.up
    BY <1>1 DEF GraceExpires, Entries
  <2> QED
    BY <1>1, <2>1, <2>2 DEF GraceExpires, Entries, Renewing, Quiet, GraceHonest
<1>2. CASE ChannelChanges
  <2>1. /\ cloud' = [cloud EXCEPT !.connected = ~@]
        /\ HandleUpdate(cloud'.connected, cloud.error)
        /\ UNCHANGED entry /\ Subscribed
    BY <1>2 DEF ChannelChanges
  <2>2. cloud'.connected \in BOOLEAN
    BY <2>1 DEF Entries
  <2>3. /\ coord' \in [up : BOOLEAN, grace : BOOLEAN, opened : BOOLEAN]
        /\ coord'.grace <=> coord'.up /\ ~cloud'.connected
    BY <2>1, <2>2, CoordUpdates
  <2> QED
    BY <2>1, <2>2, <2>3 DEF Entries, Renewing, Quiet, GraceHonest
<1>3. CASE Refresh
  <2>1. /\ SyncReauth(cloud.error, coord)
        /\ UNCHANGED <<entry, cloud>> /\ Subscribed
    BY <1>3 DEF Refresh
  <2> QED
    BY <2>1, CoordSyncs DEF Entries, Renewing, Quiet, GraceHonest
<1>4. CASE RenewBegins
  BY <1>4 DEF RenewBegins, Entries, Renewing, Quiet, GraceHonest
<1>5. CASE RenewOk
  <2>1. /\ cloud' = [cloud EXCEPT !.caller = "none", !.error = "none"]
        /\ HandleUpdate(cloud.connected, "none")
        /\ entry' = [entry EXCEPT !.session = cloud.session]
    BY <1>5 DEF RenewOk
  <2>2. /\ coord' \in [up : BOOLEAN, grace : BOOLEAN, opened : BOOLEAN]
        /\ Subscribed => (coord'.grace <=> coord'.up /\ ~cloud.connected)
        /\ ~Subscribed => UNCHANGED coord
    <3>1. cloud.connected \in BOOLEAN
      BY DEF Entries
    <3> QED
      BY <2>1, <3>1, CoordUpdates
  <2> QED
    BY <2>1, <2>2 DEF Entries, Renewing, Quiet, GraceHonest
<1>6. CASE RenewRefused
  <2>1. /\ cloud' = [cloud EXCEPT !.caller = "none", !.error = "refused"]
        /\ UNCHANGED entry /\ Subscribed
    BY <1>6 DEF RenewRefused, Entries, Renewing
  <2>2. \/ coord' = [coord EXCEPT !.opened = TRUE] \/ RequestReauth \/ UNCHANGED coord
        \/ HandleUpdate(cloud.connected, "refused")
    BY <1>6 DEF RenewRefused
  <2>3. /\ coord' \in [up : BOOLEAN, grace : BOOLEAN, opened : BOOLEAN]
        /\ coord'.grace <=> coord'.up /\ ~cloud.connected
    <3>1. cloud.connected \in BOOLEAN
      BY DEF Entries
    <3> QED
      BY <2>1, <2>2, <3>1, CoordUpdates, CoordAsked DEF Entries, GraceHonest
  <2> QED
    BY <2>1, <2>3 DEF Entries, Renewing, Quiet, GraceHonest
<1>7. CASE RenewFails
  <2>1. PICK e \in {"none", "refused", "stale"} :
          /\ cloud' = [cloud EXCEPT !.caller = "none", !.error = e]
          /\ SyncReauth(e, coord) \/ HandleUpdate(cloud.connected, e) \/ UNCHANGED coord
    BY <1>7 DEF RenewFails, Entries
  <2>2. UNCHANGED entry /\ Subscribed
    BY <1>7 DEF RenewFails, Entries, Renewing
  <2>3. /\ coord' \in [up : BOOLEAN, grace : BOOLEAN, opened : BOOLEAN]
        /\ coord'.grace <=> coord'.up /\ ~cloud.connected
    <3>1. cloud.connected \in BOOLEAN
      BY DEF Entries
    <3>2. CASE HandleUpdate(cloud.connected, e)
      BY <2>2, <3>1, <3>2, CoordUpdates
    <3>3. CASE SyncReauth(e, coord) \/ UNCHANGED coord
      BY <2>2, <3>3, CoordSyncs DEF Entries, GraceHonest
    <3> QED
      BY <2>1, <3>2, <3>3
  <2> QED
    BY <2>1, <2>2, <2>3 DEF Entries, Renewing, Quiet, GraceHonest
<1>8. CASE Loads
  <2> USE DEF Entries, Renewing, Quiet, GraceHonest
  <2>1. CASE SetupOk
    <3>1. /\ coord' \in [up : BOOLEAN, grace : BOOLEAN, opened : BOOLEAN]
          /\ coord'.up /\ ~coord'.grace
      BY <2>1 DEF SetupOk, NoCoord
    <3> QED
      BY <2>1, <3>1 DEF SetupOk
  <2>2. CASE SetupRefused \/ SetupFails
    <3>1. /\ \E x \in {"failed", "retry"} : entry' = [entry EXCEPT !.state = x]
          /\ cloud' = NoCloud /\ UNCHANGED coord
          /\ entry.state = "setup"
      BY <2>2 DEF SetupRefused, SetupFails
    <3>2. cloud' \in [key : Keys \cup {None}, session : Keys \cup {None},
                      caller : Callers, error : {"none", "refused", "stale"},
                      connected : BOOLEAN]
      BY <3>1 DEF NoCloud
    <3> QED
      BY <3>1, <3>2 DEF NoCloud
  <2>3. CASE SetupAgain
    BY <2>3 DEF SetupAgain, Opened, NoCloud
  <2>4. CASE Reload
    <3>1. CASE entry.state = "loaded"
      BY <2>4, <3>1 DEF Reload
    <3>2. CASE entry.state # "loaded"
      BY <2>4, <3>2 DEF Reload, Opened, NoCloud
    <3> QED
      BY <3>1, <3>2
  <2>5. CASE Unloaded
    BY <2>5 DEF Unloaded, Opened, NoCloud, NoCoord
  <2> QED
    BY <1>8, <2>1, <2>2, <2>3, <2>4, <2>5 DEF Loads
<1>9. CASE Dismiss \/ Password \/ UNCHANGED vars
  BY <1>9 DEF Dismiss, Password, vars, Entries, Renewing, Quiet, GraceHonest
<1>10. ASSUME NEW p \in Posts, Post(p) \/ Configure(p) \/ CodeSent(p)
       PROVE  Entries'
  BY <1>10 DEF Post, Configure, CodeSent, Entries, Renewing, Quiet, GraceHonest
<1>11. ASSUME NEW s \in Submits, Code(s) \/ CodeFails(s) \/ CodeOk(s)
       PROVE  Entries'
  BY <1>11 DEF Code, CodeFails, CodeOk, Entries, Renewing, Quiet, GraceHonest
<1>12. ASSUME NEW s \in Submits, Finish(s)
       PROVE  Entries'
  <2>1. AuthOf(s) \in Keys \cup {None} /\ submit[s].on \in Keys \cup {None}
    BY DEF AuthOf, Flows
  <2>2. /\ entry' = [entry EXCEPT !.key = AuthOf(s), !.session = submit[s].on]
        /\ UNCHANGED <<cloud, coord>>
    BY <1>12 DEF Finish
  <2> QED
    BY <2>1, <2>2 DEF Entries, Renewing, Quiet, GraceHonest
<1> QED
  BY <1>1, <1>2, <1>3, <1>4, <1>5, <1>6, <1>7, <1>8, <1>9, <1>10, <1>11, <1>12
  DEF Next, Loads

-----------------------------------------------------------------------------
(* The latch *)

\* A coordinator asks for a login only with its latch set, and withdraws it only with
\* the latch reset.
LEMMA LatchSyncs ==
  ASSUME Flows, NEW e, NEW c \in [up : BOOLEAN, grace : BOOLEAN, opened : BOOLEAN],
         c.opened = coord.opened,
         coord.opened => flow.step # "none" \/ gone,
         SyncReauth(e, c)
  PROVE  coord'.opened => flow'.step # "none" \/ gone'
<1>1. CASE e # "none" /\ ~c.opened /\ entry.state # "unloading"
  BY <1>1, FlowStarts DEF SyncReauth
<1>2. CASE e # "none" /\ ~(~c.opened /\ entry.state # "unloading")
  BY <1>2 DEF SyncReauth, flows
<1>3. CASE e = "none"
  BY <1>3 DEF SyncReauth
<1> QED
  BY <1>1, <1>2, <1>3

LEMMA LatchUpdates ==
  ASSUME Flows, Entries, NEW x \in BOOLEAN, NEW e,
         coord.opened => flow.step # "none" \/ gone,
         HandleUpdate(x, e)
  PROVE  coord'.opened => flow'.step # "none" \/ gone'
<1>1. CASE Subscribed
  <2>1. /\ Channel(x) \in [up : BOOLEAN, grace : BOOLEAN, opened : BOOLEAN]
        /\ Channel(x).opened = coord.opened
    BY DEF Channel, Entries
  <2> QED
    BY <1>1, <2>1, LatchSyncs DEF HandleUpdate
<1>2. CASE ~Subscribed
  BY <1>2 DEF HandleUpdate, flows
<1> QED
  BY <1>1, <1>2

LEMMA LatchAsks ==
  ASSUME Flows, coord.opened => flow.step # "none" \/ gone, RequestReauth
  PROVE  coord'.opened => flow'.step # "none" \/ gone'
<1>1. CASE ~coord.opened /\ entry.state # "unloading"
  BY <1>1, FlowStarts DEF RequestReauth
<1>2. CASE ~(~coord.opened /\ entry.state # "unloading")
  BY <1>2 DEF RequestReauth, flows
<1> QED
  BY <1>1, <1>2

LEMMA LatchStep ==
  ASSUME Flows, Entries, ReauthAsked, [Next]_vars
  PROVE  ReauthAsked'
<1> DEFINE Asked == coord.opened => flow.step # "none" \/ gone
<1>1. SUFFICES ASSUME entry'.state = "loaded"
               PROVE  Asked'
  BY DEF ReauthAsked
<1>2. CASE SetupOk
  BY <1>2 DEF SetupOk, NoCoord
<1>3. CASE Loads /\ ~SetupOk
  BY <1>1, <1>3 DEF Loads, SetupRefused, SetupFails, SetupAgain, Reload, Unloaded, Entries
<1>4. CASE [Next]_vars /\ ~Loads
  <2>1. entry'.state = entry.state
    BY <1>4 DEF Next, Loads, GraceExpires, ChannelChanges, Refresh, RenewBegins, RenewOk,
       RenewRefused, RenewFails, Dismiss, Password, Post, Configure, CodeSent, Code, CodeFails,
       CodeOk, Finish, Entries, vars
  <2>2. Asked
    BY <1>1, <2>1 DEF ReauthAsked
  <2>3. cloud.connected \in BOOLEAN /\ cloud'.connected \in BOOLEAN
    BY EntryStep DEF Entries
  <2>4. coord \in [up : BOOLEAN, grace : BOOLEAN, opened : BOOLEAN]
    BY DEF Entries
  <2>5. CASE GraceExpires \/ RenewBegins \/ UNCHANGED vars
    <3>1. coord'.opened = coord.opened /\ UNCHANGED flows
      BY <2>4, <2>5 DEF GraceExpires, RenewBegins, flows, vars
    <3> QED
      BY <2>2, <3>1 DEF flows
  <2>6. CASE ChannelChanges
    BY <2>2, <2>3, <2>6, LatchUpdates DEF ChannelChanges
  <2>7. CASE Refresh
    BY <2>2, <2>4, <2>7, LatchSyncs DEF Refresh
  <2>8. CASE RenewOk
    BY <2>2, <2>3, <2>8, LatchUpdates DEF RenewOk
  <2>9. CASE RenewRefused
    <3>1. \/ StartReauth \/ RequestReauth \/ UNCHANGED <<coord, flows>>
          \/ HandleUpdate(cloud.connected, "refused")
      BY <2>9 DEF RenewRefused
    <3> QED
      BY <2>2, <2>3, <3>1, FlowStarts, LatchAsks, LatchUpdates DEF flows
  <2>10. CASE RenewFails
    <3>1. PICK e \in {"none", "stale", cloud.error} :
            SyncReauth(e, coord) \/ HandleUpdate(cloud.connected, e) \/ UNCHANGED <<coord, flows>>
      BY <2>10 DEF RenewFails
    <3> QED
      BY <2>2, <2>3, <2>4, <3>1, LatchSyncs, LatchUpdates DEF flows
  <2>11. CASE Dismiss \/ Password
    BY <2>11 DEF Dismiss, Password
  <2>12. ASSUME NEW p \in Posts, Post(p) \/ Configure(p) \/ CodeSent(p)
         PROVE  Asked'
    <3>1. UNCHANGED <<coord, gone>>
      BY <2>12 DEF Post, Configure, CodeSent
    <3>2. UNCHANGED flow \/ flow'.step \in {"code", "form"}
      BY <2>12 DEF Post, Configure, CodeSent, Flows
    <3> QED
      BY <2>2, <3>1, <3>2
  <2>13. ASSUME NEW s \in Submits, Code(s) \/ CodeFails(s) \/ CodeOk(s) \/ Finish(s)
         PROVE  Asked'
    BY <2>2, <2>13 DEF Code, CodeFails, CodeOk, Finish, Flows
  <2> QED
    BY <1>4, <2>5, <2>6, <2>7, <2>8, <2>9, <2>10, <2>11, <2>12, <2>13 DEF Next, Loads
<1> QED
  BY <1>2, <1>3, <1>4

-----------------------------------------------------------------------------
(* The theorems *)

LEMMA Initially ==
  ASSUME Init
  PROVE  Flows /\ Entries /\ ReauthAsked
<1>1. Flows
  BY DEF Init, NoFlow, NoPost, NoSubmit, Flows, Logins, Mails
<1>2. PICK k \in Keys \cup {None} : entry = [state |-> "setup", key |-> k, session |-> k]
  BY DEF Init
<1>3. /\ cloud = [key |-> k, session |-> k, caller |-> "none", error |-> "none",
                  connected |-> FALSE]
      /\ coord = NoCoord
  BY <1>2 DEF Init, Opened, NoCloud
<1> QED
  BY <1>1, <1>2, <1>3 DEF NoCoord, Entries, Callers, Subscribed, Renewing, Quiet, GraceHonest,
     ReauthAsked

LEMMA Invariant == Spec => [](Flows /\ Entries /\ ReauthAsked)
<1>1. Flows /\ Entries /\ ReauthAsked /\ [Next]_vars => (Flows /\ Entries /\ ReauthAsked)'
  BY FlowStep, EntryStep, LatchStep
<1> QED
  BY <1>1, Initially, PTL DEF Spec

\* Every variable keeps its type, a flow past its form has a login, and nothing of the
\* coordinator outlives an unload.
THEOREM TypeCorrect == Spec => []TypeOK
<1>1. Flows /\ Entries => TypeOK
  BY DEF Flows, Logins, Entries, TypeOK, Types
<1> QED
  BY <1>1, Invariant, PTL

\* The grace timer of a loaded entry runs exactly while the channel is down and the
\* entities are still shown.
THEOREM GraceIsHonest == Spec => []GraceHonest
<1>1. Flows /\ Entries => GraceHonest
  BY DEF Entries
<1> QED
  BY <1>1, Invariant, PTL

\* However captcha pages post and codes are submitted, a login asks for one e-mail.
THEOREM OneRequests == Spec => []OneRequest
<1>1. Flows /\ Entries => OneRequest
  BY DEF Flows, Mails, OneRequest
<1> QED
  BY <1>1, Invariant, PTL

\* A coordinator that holds a login for asked for is right, however renewals are refused
\* or succeed, flows are closed and the entry is reloaded.
THEOREM LoginsAsked == Spec => []ReauthAsked
  BY Invariant, PTL

=============================================================================
