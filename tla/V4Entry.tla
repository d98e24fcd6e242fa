------------------------------- MODULE V4Entry -------------------------------
(***************************************************************************)
(* The config entry of a Tion v4 account: its setup and reload             *)
(* (__init__.py), its coordinator (cloud_v4_devices.py), and the login that*)
(* is asked for when the session cannot be renewed (config_flow.py,        *)
(* captcha_view.py, the code login of cloud_v4/auth.py).                   *)
(*                                                                         *)
(* A login makes a device key, and Tion binds the session it grants to that*)
(* key: a session is named by the key it is bound to.  What the entry's    *)
(* cloud does is what LiveChannel and TionAuth promise of it: its channel  *)
(* goes up and down, a renewal succeeds, fails or is refused.              *)
(***************************************************************************)
EXTENDS Naturals

CONSTANTS
    Keys,        \* device keys, reused once forgotten
    Posts,       \* captcha pages that post their token
    Submits,     \* submissions of the code from the e-mail
    None

ASSUME NoneAssumption == None \notin Keys

VARIABLES
    entry,       \* the config entry: its state and the key and session it saves
    cloud,       \* its session in memory: renewal under way, auth_error, live channel
    coord,       \* channel_up, the grace timer, _reauth_opened
    flow,        \* the reauth flow: its step, self._auth, whether that was sent a code
    posts,       \* captcha tokens on their way
    submit,      \* codes on their way; left: the auth of a flow that has ended since
    gone         \* history: the user has closed or ended the flow that was asked for

vars == <<entry, cloud, coord, flow, posts, submit, gone>>

flows == <<flow, posts, submit, gone>>

Callers == {"none", "start", "refresh", "event", "command", "reconnect"}

NoCloud == [key |-> None, session |-> None, caller |-> "none", error |-> "none",
            connected |-> FALSE]
NoCoord == [up |-> FALSE, grace |-> FALSE, opened |-> FALSE]
NoFlow == [step |-> "none", auth |-> None, mailed |-> FALSE]
NoPost == [at |-> "idle", on |-> None]
NoSubmit == [at |-> "idle", on |-> None, left |-> None]

Opened(data) == [NoCloud EXCEPT !.key = data.key, !.session = data.session]

\* An entry that was saved by a login, or one without a session.
Init ==
    /\ \E k \in Keys \cup {None} :
         entry = [state |-> "setup", key |-> k, session |-> k]
    /\ cloud = Opened(entry)
    /\ coord = NoCoord
    /\ flow = NoFlow
    /\ posts = [p \in Posts |-> NoPost]
    /\ submit = [s \in Submits |-> NoSubmit]
    /\ gone = FALSE

Subscribed == entry.state \in {"loaded", "unloading"}

-----------------------------------------------------------------------------
(* The reauth flow, as Home Assistant keeps it *)

\* async_start_reauth: one flow for an entry.
StartReauth ==
    /\ flow' = IF flow.step = "none" THEN [NoFlow EXCEPT !.step = "form"] ELSE flow
    /\ gone' = FALSE
    /\ UNCHANGED <<posts, submit>>

\* The flow ends; what it awaits goes on without it.
EndFlow(mine) ==
    /\ flow' = NoFlow
    /\ posts' = [p \in Posts |-> IF posts[p].at = "asking" THEN [NoPost EXCEPT !.at = "left"]
                                 ELSE IF posts[p].at = "body" THEN NoPost ELSE posts[p]]
    /\ submit' = [s \in Submits |->
                    IF mine[s].at # "idle" /\ mine[s].left = None
                      THEN [mine[s] EXCEPT !.left = flow.auth] ELSE mine[s]]

Dismiss ==
    /\ flow.step # "none"
    /\ EndFlow(submit)
    /\ gone' = TRUE
    /\ UNCHANGED <<entry, cloud, coord>>

-----------------------------------------------------------------------------
(* The coordinator *)

\* async_request_reauth, not while the entry is unloaded.
RequestReauth ==
    IF ~coord.opened /\ entry.state # "unloading"
      THEN StartReauth /\ coord' = [coord EXCEPT !.opened = TRUE]
      ELSE UNCHANGED <<coord, flows>>

\* Faulty variant: the flow is withdrawn, but remembered as open.
SyncReauthOpened(e, c) ==
    IF e # "none"
      THEN IF ~c.opened /\ entry.state # "unloading"
             THEN StartReauth /\ coord' = [c EXCEPT !.opened = TRUE]
             ELSE UNCHANGED flows /\ coord' = c
      ELSE /\ coord' = c
           /\ IF c.opened THEN EndFlow(submit) /\ gone' = FALSE ELSE UNCHANGED flows

\* _sync_reauth with auth_error e, for the coordinator as it is by then.
SyncReauth(e, c) ==
    IF e # "none"
      THEN IF ~c.opened /\ entry.state # "unloading"
             THEN StartReauth /\ coord' = [c EXCEPT !.opened = TRUE]
             ELSE UNCHANGED flows /\ coord' = c
      ELSE /\ coord' = [c EXCEPT !.opened = FALSE]
           /\ IF c.opened THEN EndFlow(submit) /\ gone' = FALSE ELSE UNCHANGED flows

\* Faulty variant: the timer is left running when the channel comes back.
ChannelUncancelled(connected) ==
    IF connected THEN [coord EXCEPT !.up = TRUE]
    ELSE [coord EXCEPT !.grace = @ \/ coord.up]

\* The grace timer is cancelled by a live channel, and started once by a lost one.
Channel(connected) ==
    IF connected THEN [coord EXCEPT !.up = TRUE, !.grace = FALSE]
    ELSE [coord EXCEPT !.grace = @ \/ coord.up]

\* _handle_cloud_update
HandleUpdate(connected, e) ==
    IF Subscribed THEN SyncReauth(e, Channel(connected)) ELSE UNCHANGED <<coord, flows>>

\* _grace_expired
GraceExpires ==
    /\ coord.grace
    /\ coord' = [coord EXCEPT !.grace = FALSE, !.up = FALSE]
    /\ UNCHANGED <<entry, cloud, flows>>

\* The live channel is lost, or comes back.
ChannelChanges ==
    /\ Subscribed
    /\ cloud' = [cloud EXCEPT !.connected = ~@]
    /\ HandleUpdate(cloud'.connected, cloud.error)
    /\ UNCHANGED entry

\* async_refresh is not refused: it ends with a look at the error remembered by then.
Refresh ==
    /\ Subscribed
    /\ cloud.caller = "none"
    /\ SyncReauth(cloud.error, coord)
    /\ UNCHANGED <<entry, cloud>>

-----------------------------------------------------------------------------
(* Renewals *)

\* The start, the minute's refresh, the one after a location event, a command or a
\* reconnect needs a newer token.
RenewBegins ==
    /\ cloud.caller = "none"
    /\ \E c \in Callers \ {"none"} :
         /\ (c = "start") = (entry.state = "setup" /\ entry.key # None)
         /\ c # "start" => Subscribed
         /\ c = "reconnect" => ~cloud.connected
         /\ cloud' = [cloud EXCEPT !.caller = c]
    /\ UNCHANGED <<entry, coord, flows>>

\* The listeners hear of the tokens: the cloud's tells the coordinator, the entry's
\* saves them, beside whatever key the entry has by now.
RenewOk ==
    /\ cloud.caller # "none"
    /\ cloud.session = cloud.key
    /\ cloud' = [cloud EXCEPT !.caller = "none", !.error = "none"]
    /\ HandleUpdate(cloud.connected, "none")
    /\ entry' = [entry EXCEPT !.session = cloud.session]

\* The renewal is refused, or the last refusal is recalled: the minute's refresh
\* raises it and Home Assistant asks for a login whatever the state of the entry, a
\* command asks for one, a reconnect tells the listeners, an event's refresh nobody.
RenewRefused ==
    /\ cloud.caller \notin {"none", "start"}
    /\ cloud' = [cloud EXCEPT !.caller = "none", !.error = "refused"]
    /\ CASE cloud.caller = "refresh" ->
              StartReauth /\ coord' = [coord EXCEPT !.opened = TRUE]
         [] cloud.caller = "command" -> RequestReauth
         [] cloud.caller = "reconnect" -> HandleUpdate(cloud.connected, "refused")
         [] OTHER -> UNCHANGED <<coord, flows>>
    /\ UNCHANGED entry

\* The renewal fails, perhaps for an hour by now, which counts like a refusal.
RenewFails ==
    /\ cloud.caller \notin {"none", "start"}
    /\ \E e \in IF cloud.error = "none" THEN {"none", "stale"} ELSE {cloud.error} :
         /\ cloud' = [cloud EXCEPT !.caller = "none", !.error = e]
         /\ CASE cloud.caller = "refresh" -> SyncReauth(e, coord)
              [] cloud.caller = "reconnect" /\ e # "none" -> HandleUpdate(cloud.connected, e)
              [] OTHER -> UNCHANGED <<coord, flows>>
    /\ UNCHANGED entry

-----------------------------------------------------------------------------
(* Setup and reload *)

SetupOk ==
    /\ entry.state = "setup" /\ entry.key # None
    /\ cloud.caller = "none"
    /\ entry' = [entry EXCEPT !.state = "loaded"]
    /\ cloud' = [cloud EXCEPT !.connected = TRUE]
    /\ coord' = [NoCoord EXCEPT !.up = TRUE]
    /\ UNCHANGED flows

\* No session in the entry, or Tion refuses it: Home Assistant asks for a login.
SetupRefused ==
    /\ entry.state = "setup"
    /\ entry.key = None \/ cloud.caller = "start"
    /\ entry' = [entry EXCEPT !.state = "failed"]
    /\ cloud' = NoCloud
    /\ StartReauth
    /\ UNCHANGED coord

\* No connection: Home Assistant tries again later.
SetupFails ==
    /\ entry.state = "setup" /\ entry.key # None
    /\ entry' = [entry EXCEPT !.state = "retry"]
    /\ cloud' = NoCloud
    /\ UNCHANGED <<coord, flows>>

SetupAgain ==
    /\ entry.state = "retry"
    /\ entry' = [entry EXCEPT !.state = "setup"]
    /\ cloud' = Opened(entry)
    /\ UNCHANGED <<coord, flows>>

\* A reload, after a login or for the user, ends the reauth flows of the entry and
\* unloads its platforms.
Reload ==
    /\ entry.state \in {"loaded", "failed", "retry"}
    /\ EndFlow(submit) /\ gone' = FALSE
    /\ IF entry.state = "loaded"
         THEN /\ entry' = [entry EXCEPT !.state = "unloading"]
              /\ UNCHANGED cloud
         ELSE /\ entry' = [entry EXCEPT !.state = "setup"]
              /\ cloud' = Opened(entry)
    /\ UNCHANGED coord

\* The platforms are gone: the coordinator shuts down, the cloud is stopped, the
\* tokens are no longer saved, and the entry is set up again.
Unloaded ==
    /\ entry.state = "unloading"
    /\ entry' = [entry EXCEPT !.state = "setup"]
    /\ cloud' = Opened(entry)
    /\ coord' = NoCoord
    /\ UNCHANGED flows

-----------------------------------------------------------------------------
(* The login *)

InUse == {entry.key, entry.session, cloud.key, cloud.session, flow.auth}
            \cup {posts[p].on : p \in Posts}
            \cup {submit[s].on : s \in Submits} \cup {submit[s].left : s \in Submits}

\* The password form starts a login with a key of its own and shows the captcha.
Password ==
    /\ flow.step = "form"
    /\ \E k \in Keys \ InUse : flow' = [step |-> "captcha", auth |-> k, mailed |-> FALSE]
    /\ UNCHANGED <<entry, cloud, coord, posts, submit, gone>>

\* A captcha page posts its token; its body is read.
Post(p) ==
    /\ posts[p].at = "idle"
    /\ flow.step = "captcha"
    /\ posts' = [posts EXCEPT ![p].at = "body"]
    /\ UNCHANGED <<entry, cloud, coord, flow, submit, gone>>

\* Faulty variant: what held before the body was read is not looked at again.
AcceptsAnyway(p) == TRUE

\* No other token of the flow is under way, and it still waits for one.
Accepts(p) == flow.step = "captcha" /\ \A q \in Posts : posts[q].at # "asking"

\* The flow asks Tion for an e-mail with a code, or the page is told "not found".
Configure(p) ==
    /\ posts[p].at = "body"
    /\ posts' = [posts EXCEPT ![p] = IF Accepts(p) THEN [at |-> "asking", on |-> flow.auth]
                                     ELSE NoPost]
    /\ UNCHANGED <<entry, cloud, coord, flow, submit, gone>>

\* The e-mail was sent, or not: then the password is asked for again.
CodeSent(p) ==
    /\ posts[p].at \in {"asking", "left"}
    /\ posts' = [posts EXCEPT ![p] = NoPost]
    /\ IF posts[p].at = "left" THEN UNCHANGED flow
       ELSE \/ flow' = [flow EXCEPT !.step = "code",
                                    !.mailed = @ \/ posts[p].on = flow.auth]
            \/ flow' = [flow EXCEPT !.step = "form"]
    /\ UNCHANGED <<entry, cloud, coord, submit, gone>>

\* The code is submitted; the login must have got its e-mail.
Code(s) ==
    /\ flow.step = "code"
    /\ flow.mailed
    /\ submit[s].at = "idle"
    /\ submit' = [submit EXCEPT ![s] = [at |-> "check", on |-> flow.auth, left |-> None]]
    /\ UNCHANGED <<entry, cloud, coord, flow, posts, gone>>

\* self._auth, when submission s looks at it.
AuthOf(s) == IF submit[s].left = None THEN flow.auth ELSE submit[s].left

\* The answer to a code or for the tokens was no: the code is asked for again, or
\* the login starts anew, or it ends.
CodeFails(s) ==
    /\ submit[s].at \in {"check", "token"}
    /\ LET mine == [submit EXCEPT ![s] = NoSubmit]
       IN IF submit[s].left # None THEN submit' = mine /\ UNCHANGED <<flow, posts, gone>>
          ELSE \/ /\ \E step \in {"code", "form"} : flow' = [flow EXCEPT !.step = step]
                  /\ submit' = mine
                  /\ UNCHANGED <<posts, gone>>
               \/ EndFlow(mine) /\ gone' = TRUE
    /\ UNCHANGED <<entry, cloud, coord>>

\* The code is right; a login that was replaced meanwhile cannot go on.
CodeOk(s) ==
    /\ submit[s].at = "check"
    /\ AuthOf(s) = submit[s].on
    /\ submit' = [submit EXCEPT ![s].at = "token"]
    /\ UNCHANGED <<entry, cloud, coord, flow, posts, gone>>

\* _finish_v4_login: the tokens are saved, with the key of self._auth as it is by
\* then, and the entry is to be reloaded.
Finish(s) ==
    /\ submit[s].at = "token"
    /\ entry' = [entry EXCEPT !.key = AuthOf(s), !.session = submit[s].on]
    /\ LET mine == [submit EXCEPT ![s] = NoSubmit]
       IN IF submit[s].left # None THEN submit' = mine /\ UNCHANGED <<flow, posts, gone>>
          ELSE EndFlow(mine) /\ gone' = TRUE
    /\ UNCHANGED <<cloud, coord>>

-----------------------------------------------------------------------------
(* The specification *)

Next ==
    \/ GraceExpires \/ ChannelChanges \/ Refresh
    \/ RenewBegins \/ RenewOk \/ RenewRefused \/ RenewFails
    \/ SetupOk \/ SetupRefused \/ SetupFails \/ SetupAgain \/ Reload \/ Unloaded
    \/ Dismiss \/ Password
    \/ \E p \in Posts : Post(p) \/ Configure(p) \/ CodeSent(p)
    \/ \E s \in Submits : Code(s) \/ CodeFails(s) \/ CodeOk(s) \/ Finish(s)

Spec == Init /\ [][Next]_vars

-----------------------------------------------------------------------------
(* Properties *)

Types ==
    /\ entry \in [state : {"setup", "loaded", "unloading", "failed", "retry"},
                  key : Keys \cup {None}, session : Keys \cup {None}]
    /\ cloud \in [key : Keys \cup {None}, session : Keys \cup {None},
                  caller : Callers, error : {"none", "refused", "stale"},
                  connected : BOOLEAN]
    /\ coord \in [up : BOOLEAN, grace : BOOLEAN, opened : BOOLEAN]
    /\ flow \in [step : {"none", "form", "captcha", "code"}, auth : Keys \cup {None},
                 mailed : BOOLEAN]
    /\ posts \in [Posts -> [at : {"idle", "body", "asking", "left"}, on : Keys \cup {None}]]
    /\ submit \in [Submits -> [at : {"idle", "check", "token"}, on : Keys \cup {None},
                               left : Keys \cup {None}]]
    /\ gone \in BOOLEAN

\* An entry that is not loaded has neither a coordinator nor a live channel.
Quiet == ~Subscribed => coord = NoCoord /\ ~cloud.connected /\ cloud.error = "none"

\* Every variable keeps its type; a flow has a login from its captcha on, and nothing
\* of the coordinator outlives an unload.
TypeOK == Types /\ Quiet /\ (flow.step \in {"captcha", "code"} => flow.auth # None)

\* A login asks for one e-mail: two requests would leave the token of one with the
\* verifier of the other, and send an empty password.
OneRequest ==
    \A p \in Posts : posts[p].at = "asking" =>
      /\ \A q \in Posts \ {p} : posts[q].on # posts[p].on
      /\ posts[p].on = flow.auth => ~flow.mailed

\* The entities stay available for the grace time after a loss and no longer: the
\* timer runs exactly while the channel is down and they are still shown.
GraceHonest == Subscribed => (coord.grace <=> coord.up /\ ~cloud.connected)

\* A coordinator that holds a login for asked for (_reauth_opened) is right: the flow
\* is there, unless the user has closed or completed it.  Otherwise no later push or
\* command of a session that cannot be renewed would ask again.
ReauthAsked == entry.state = "loaded" /\ coord.opened => flow.step # "none" \/ gone

=============================================================================
