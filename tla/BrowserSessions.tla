--------------------------- MODULE BrowserSessions ---------------------------
(***************************************************************************)
(* The browser sessions of a member of the staff and the links that open   *)
(* one: a session ends when it is not used for a while, at an absolute     *)
(* time, and when it is invalidated.  A request looks the session up,      *)
(* judges the copy it got, writes a later idle time, and then looks at the *)
(* account: four statements, with whatever happens in between.             *)
(***************************************************************************)
EXTENDS Integers, Sequences

CONSTANTS
  Nil,
  Links,       \* single-use magic links
  Visitors,    \* requests at once
  Idle,        \* APP_SESSION_IDLE_MS
  Absolute,    \* APP_SESSION_ABSOLUTE_MS
  TouchGrace,  \* TOUCH_GRACE_MS
  LastTick,    \* bound on the clock
  MaxSessions  \* bound on the sessions

\* A session that lasts longer than its absolute time cannot be inserted.
PolicyAssumption ==
  /\ Idle \in Nat /\ Absolute \in Nat /\ Idle <= Absolute
  /\ Nil \notin Links

VARIABLES
  time,
  opened,    \* auth_sessions, in the order of their creation
  usedAt,    \* when each was opened or judged to be open last
  linkUsed,  \* used_at of each of internal_magic_links is set
  active,    \* staff_users.active
  visitor    \* what each request is about to do

sessionVars == <<time, opened, usedAt, linkUsed, active, visitor>>

Gone == [at |-> "gone", cookie |-> Nil, link |-> Nil, copy |-> Nil, idle |-> 0]

SessionInit ==
  /\ time = 0
  /\ opened = <<>>
  /\ usedAt = <<>>
  /\ linkUsed = [l \in Links |-> FALSE]
  /\ active = TRUE
  /\ visitor = [v \in Visitors |-> Gone]

-----------------------------------------------------------------------------

At(v, stage) == visitor[v].at = stage

Moves(v, to) == visitor' = [visitor EXCEPT ![v] = to]

Leaves(v) == Moves(v, Gone)

Open(link) ==
  /\ Len(opened) < MaxSessions
  /\ opened' = Append(opened,
       [seen |-> time, idle |-> time + Idle, absolute |-> time + Absolute,
        ended |-> FALSE, link |-> link])
  /\ usedAt' = Append(usedAt, time)

Ended(s) == [s EXCEPT !.ended = TRUE]

Login(v) ==
  /\ At(v, "gone")
  /\ active
  /\ Open(Nil)
  /\ UNCHANGED <<time, linkUsed, active, visitor>>

\* consumeInternalMagicLink: the link, and the account; its use; the session.
FollowLink(v, l) ==
  /\ At(v, "gone")
  /\ ~linkUsed[l]
  /\ active
  /\ Moves(v, [Gone EXCEPT !.at = "consume", !.link = l])
  /\ UNCHANGED <<time, opened, usedAt, linkUsed, active>>

AnyUse(l) == TRUE
Unused(l) == ~linkUsed[l]

ConsumeLink(v) ==
  LET l == visitor[v].link
  IN  /\ At(v, "consume")
      /\ Unused(l)
      /\ linkUsed' = [linkUsed EXCEPT ![l] = TRUE]
      /\ Moves(v, [visitor[v] EXCEPT !.at = "open"])
      /\ UNCHANGED <<time, opened, usedAt, active>>

OpenFromLink(v) ==
  /\ At(v, "open")
  /\ Open(visitor[v].link)
  /\ Leaves(v)
  /\ UNCHANGED <<time, linkUsed, active>>

\* loadActiveSession: the row, and the judgement of it as it was.
LookUp(v, c) ==
  /\ At(v, "gone")
  /\ Moves(v, [Gone EXCEPT !.at = "judge", !.cookie = c, !.copy = opened[c]])
  /\ UNCHANGED <<time, opened, usedAt, linkUsed, active>>

IsOpen(s) == ~s.ended /\ time < s.absolute /\ time < s.idle

NeedsTouch(s) == time - s.seen >= TouchGrace

IdleFromLast(s) == s.idle + Idle
IdleFromNow(s)  == time + Idle

Judge(v) ==
  LET s == visitor[v].copy
  IN  /\ At(v, "judge")
      /\ IsOpen(s)
      /\ usedAt' = [usedAt EXCEPT ![visitor[v].cookie] = time]
      /\ Moves(v, IF NeedsTouch(s)
                 THEN [visitor[v] EXCEPT !.at = "touch", !.idle = IdleFromNow(s)]
                 ELSE [visitor[v] EXCEPT !.at = "admit"])
      /\ UNCHANGED <<time, opened, linkUsed, active>>

\* The session is over: it is marked so, or that fails and nobody notices.
Refuse(v) ==
  /\ At(v, "judge")
  /\ ~IsOpen(visitor[v].copy)
  /\ opened' \in {opened, [opened EXCEPT ![visitor[v].cookie] = Ended(@)]}
  /\ Leaves(v)
  /\ UNCHANGED <<time, usedAt, linkUsed, active>>

\* The table refuses an idle time after the absolute one: the error, like any
\* other, is swallowed.
Touch(v) ==
  LET c == visitor[v].cookie
  IN  /\ At(v, "touch")
      /\ IF opened[c].ended \/ visitor[v].idle > opened[c].absolute
         THEN UNCHANGED opened
         ELSE opened' = [opened EXCEPT ![c].seen = time, ![c].idle = visitor[v].idle]
      /\ Moves(v, [visitor[v] EXCEPT !.at = "admit"])
      /\ UNCHANGED <<time, usedAt, linkUsed, active>>

TouchFails(v) ==
  /\ At(v, "touch")
  /\ Moves(v, [visitor[v] EXCEPT !.at = "admit"])
  /\ UNCHANGED <<time, opened, usedAt, linkUsed, active>>

\* requireStaff, after loadActiveSession: the request is served.
Serve(v) ==
  /\ At(v, "admit")
  /\ active
  /\ Leaves(v)
  /\ UNCHANGED <<time, opened, usedAt, linkUsed, active>>

TurnAway(v) ==
  /\ At(v, "admit")
  /\ ~active
  /\ opened' \in {opened, [opened EXCEPT ![visitor[v].cookie] = Ended(@)]}
  /\ Leaves(v)
  /\ UNCHANGED <<time, usedAt, linkUsed, active>>

\* The request is /staff/logout.
Logout(v) ==
  /\ At(v, "admit")
  /\ active
  /\ opened' = [opened EXCEPT ![visitor[v].cookie] = Ended(@)]
  /\ Leaves(v)
  /\ UNCHANGED <<time, usedAt, linkUsed, active>>

\* A process that stops, or a request that gives up or finds the link used.
GiveUp(v) ==
  /\ ~At(v, "gone")
  /\ Leaves(v)
  /\ UNCHANGED <<time, opened, usedAt, linkUsed, active>>

\* An owner changes the account, and then ends the sessions of its member.
ChangeAccount == active' = ~active /\ UNCHANGED <<time, opened, usedAt, linkUsed, visitor>>

EndAll ==
  /\ opened' = [c \in DOMAIN opened |-> Ended(opened[c])]
  /\ UNCHANGED <<time, usedAt, linkUsed, active, visitor>>

Tick ==
  /\ time < LastTick
  /\ time' = time + 1
  /\ UNCHANGED <<opened, usedAt, linkUsed, active, visitor>>

Visit(v) ==
  \/ Login(v)
  \/ \E l \in Links : FollowLink(v, l)
  \/ ConsumeLink(v) \/ OpenFromLink(v)
  \/ \E c \in DOMAIN opened : LookUp(v, c)
  \/ Judge(v) \/ Refuse(v) \/ Touch(v) \/ TouchFails(v)
  \/ Serve(v) \/ TurnAway(v) \/ Logout(v) \/ GiveUp(v)

SessionNext == (\E v \in Visitors : Visit(v)) \/ ChangeAccount \/ EndAll \/ Tick

SessionSpec == SessionInit /\ [][SessionNext]_sessionVars

-----------------------------------------------------------------------------

\* A link that may be used once opens one session at most.
LinkOpensOnce ==
  \A c, d \in DOMAIN opened :
    opened[c].link = opened[d].link /\ opened[c].link # Nil => c = d

\* Nothing keeps a session open longer than Idle after its last use, or
\* Absolute after its start: neither in the table nor in a copy that a request
\* is about to judge, nor in an idle time it is about to write.
Bounded(s, c) == s.idle <= usedAt[c] + Idle /\ s.idle <= s.absolute

EndsInTime ==
  /\ \A c \in DOMAIN opened : Bounded(opened[c], c)
  /\ \A v \in Visitors :
       /\ At(v, "judge") => Bounded(visitor[v].copy, visitor[v].cookie)
       /\ At(v, "touch") => visitor[v].idle <= usedAt[visitor[v].cookie] + Idle

(* Requests that overtake each other neither open a second session with a  *)
(* link nor keep one open longer than the policy says.                     *)
SessionsSound == LinkOpensOnce /\ EndsInTime
=============================================================================
