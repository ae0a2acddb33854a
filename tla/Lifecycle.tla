------------------------------ MODULE Lifecycle ------------------------------
(***************************************************************************)
(* The daily automation of one business (lifecycle-service): birthday and  *)
(* winback bonuses and the digest of suspicious awards.  The API and the   *)
(* worker may both run it, and a lifecycle job runs it again on demand.    *)
(* The date of the events is read from the clock of the process, before    *)
(* the customers are selected by the date of the database.                 *)
(***************************************************************************)
EXTENDS Naturals, Sequences

CONSTANTS
  Runners,    \* runs of the automation that may go on at the same time
  Customers,     \* customers of the business
  Birthday,   \* Birthday[g]: the day of the birthday of guest g
  Bonus,      \* points of a bonus: Bonus.birthday, Bonus.winback
  Nobody,     \* no customer
  LastClock     \* bound on the clock

ASSUME ClockAssumption == LastClock \in Nat

VARIABLES
  clock,     \* the day
  recorded,  \* rows of lifecycle_events
  gifts,     \* transactions with source 'lifecycle' that each event led to
  messages,  \* messages that each event led to
  runner     \* what each run is doing

lifecycleVars == <<clock, recorded, gifts, messages, runner>>

Stages == <<"birthday", "winback", "digest">>

\* What lifecycle_events may hold.
Happenings == [guest : Customers, kind : {"birthday", "winback", "digest"}, date : 0..LastClock]

Asleep == [at |-> "idle", stage |-> 0, today |-> 0, guests |-> {}, guest |-> Nobody]

LifecycleInit ==
  /\ clock = 0
  /\ recorded = {}
  /\ gifts = [event \in Happenings |-> 0]
  /\ messages = [event \in Happenings |-> 0]
  /\ runner = [r \in Runners |-> Asleep]

Event(r, g) == [guest |-> g, kind |-> Stages[runner[r].stage], date |-> runner[r].today]

\* runLifecycleOnce starts, or goes on with the next of its three parts, each
\* of which reads the clock first.
ReadToday(r, stage) ==
  /\ runner[r].at = IF stage = 1 THEN "idle" ELSE "next"
  /\ runner[r].guests = {}
  /\ stage = runner[r].stage + 1
  /\ runner' = [runner EXCEPT ![r] = [Asleep EXCEPT !.at = "select", !.stage = stage, !.today = clock]]
  /\ UNCHANGED <<clock, recorded, gifts, messages>>

\* Who is concerned today: by the birthday, by the day of the last visit
\* (whoever it may be), or the one customer the digest is booked on.
Concerned(stage) ==
  CASE stage = "birthday" -> {{g \in Customers : Birthday[g] = clock}}
    [] stage = "winback"  -> SUBSET Customers
    [] stage = "digest"   -> {{}, {CHOOSE g \in Customers : TRUE}}

Select(r) ==
  /\ runner[r].at = "select"
  /\ \E guests \in Concerned(Stages[runner[r].stage]) :
       runner' = [runner EXCEPT ![r].at = "next", ![r].guests = guests]
  /\ UNCHANGED <<clock, recorded, gifts, messages>>

AlwaysNew(event) == TRUE

\* INSERT ... ON CONFLICT DO NOTHING did insert the event.
New(event) == event \notin recorded

Points(event) == IF event.kind = "digest" THEN 0 ELSE Bonus[event.kind]

\* One customer, in one transaction: the event, and with it the bonus.
Greet(r, g) ==
  LET event == Event(r, g)
  IN  /\ runner[r].at = "next" /\ g \in runner[r].guests
      /\ IF New(event)
           THEN /\ recorded' = recorded \cup {event}
                /\ gifts' = IF Points(event) > 0 THEN [gifts EXCEPT ![event] = @ + 1] ELSE gifts
                /\ runner' = [runner EXCEPT ![r].at = "message", ![r].guest = g,
                                            ![r].guests = @ \ {g}]
           ELSE /\ runner' = [runner EXCEPT ![r].guests = @ \ {g}]
                /\ UNCHANGED <<recorded, gifts>>
      /\ UNCHANGED <<clock, messages>>

\* The message goes out after the commit; a failure to send it is swallowed.
Message(r) ==
  /\ runner[r].at = "message"
  /\ messages' \in {messages, [messages EXCEPT ![Event(r, runner[r].guest)] = @ + 1]}
  /\ runner' = [runner EXCEPT ![r].at = "next", ![r].guest = Nobody]
  /\ UNCHANGED <<clock, recorded, gifts>>

\* All parts are done, a statement fails (nothing catches it), or the process
\* dies: customers that were not reached are not reached by this run.
StopRun(r) ==
  /\ runner[r].at # "idle"
  /\ runner' = [runner EXCEPT ![r] = Asleep]
  /\ UNCHANGED <<clock, recorded, gifts, messages>>

NextDay ==
  /\ clock < LastClock
  /\ clock' = clock + 1
  /\ UNCHANGED <<recorded, gifts, messages, runner>>

LifecycleNext ==
  \/ \E r \in Runners :
       \/ \E stage \in DOMAIN Stages : ReadToday(r, stage)
       \/ Select(r) \/ Message(r) \/ StopRun(r)
       \/ \E g \in Customers : Greet(r, g)
  \/ NextDay

LifecycleSpec == LifecycleInit /\ [][LifecycleNext]_lifecycleVars

-----------------------------------------------------------------------------
(* Properties.                                                             *)

(* However runs overlap, stop half-way and are started again: an event of  *)
(* a date brings its bonus exactly once and with the event, and at most    *)
(* one message, never without the event.                                   *)
GreetedOnce ==
  \A event \in Happenings :
    /\ gifts[event] = IF event \in recorded /\ Points(event) > 0 THEN 1 ELSE 0
    /\ messages[event] <= IF event \in recorded THEN 1 ELSE 0
=============================================================================
