---------------------------- MODULE OverlaySubs ----------------------------
(***************************************************************************)
(* eventsub_subs.go: keeping Twitch's overlay subscriptions in step with   *)
(* the broadcasters that hold an active device.  Minting subscribes and    *)
(* revoking the last device unsubscribes, each in a goroutine of its own;  *)
(* a reconcile runs once, at boot.  Every call to Twitch is a step and may *)
(* fail, in which case it is logged and skipped.                           *)
(*                                                                         *)
(* Twitch, outside src/: a subscription is a broadcaster, a type, an id    *)
(* and whether it is enabled; it may stop being so, and is listed all the  *)
(* same.  Creating an enabled one again answers 409; deletion is by id.    *)
(***************************************************************************)
EXTENDS FiniteSets, Naturals

CONSTANTS
  Broadcasters,
  Types,      \* overlaySubTypes
  Required,   \* requiredTypes, the bot's: same app, another callback
  Ids,        \* subscription ids; one may be reused when nobody remembers it
  Tasks,      \* background goroutines (and revoke requests before they start one)
  NoOne,
  MaxFailures \* bound: failed calls, subscriptions Twitch disables

ASSUME ConstantsAssumption ==
  Required \cap Types = {} /\ NoOne \notin Broadcasters /\ MaxFailures \in Nat

VARIABLES
  paired,   \* broadcasters with an active device (nivek.overlay_device)
  subs,     \* Twitch: records [b, type, id, on]
  task,     \* the goroutines
  booted,   \* has this process's reconcile been started?
  failures,
  clean     \* history: no overlap and no failure since a reconcile that ran alone

vars == <<paired, subs, task, booted, failures, clean>>

IsOverlaySub(s) == s.type \in Types
On(set) == {<<s.b, s.type>> : s \in {o \in set : o.on}}

Done == [pc |-> "done", op |-> "overlay", b |-> NoOne, keep |-> {}, create |-> {},
         delete |-> {}, todo |-> {}]

OverlayInit ==
  /\ paired = {}
  /\ task = [t \in Tasks |-> Done]
  /\ booted = FALSE
  /\ failures = 0
  /\ clean = TRUE

Running == {t \in Tasks : task[t].pc # "done"}
Start(t, r) == task[t].pc = "done" /\ task' = [task EXCEPT ![t] = r]

\* Mint: the device exists, then a goroutine creates every type.
Mint(t, b) ==
  /\ paired' = paired \cup {b}
  /\ Start(t, [Done EXCEPT !.pc = "calls", !.b = b, !.create = {b} \X Types])
  /\ clean' = (clean /\ Running = {})
  /\ UNCHANGED <<subs, booted, failures>>

\* Revoke of the last device: the row is gone; the handler has yet to count what is left.
Revoke(t, b) ==
  /\ b \in paired
  /\ paired' = paired \ {b}
  /\ Start(t, [Done EXCEPT !.pc = "remaining", !.b = b])
  /\ clean' = (clean /\ Running = {})
  /\ UNCHANGED <<subs, booted, failures>>

\* ListDevices: only if none remain does a goroutine unsubscribe.
UnsubscribeIf(t, none) ==
  /\ task[t].pc = "remaining"
  /\ task' = [task EXCEPT ![t] = IF none THEN [@ EXCEPT !.pc = "list"] ELSE Done]
  /\ UNCHANGED <<paired, subs, booted, failures, clean>>

\* Mutant: the count is not taken again after the revocation.
CountStale(t) == UnsubscribeIf(t, TRUE)
CountRemaining(t) == UnsubscribeIf(t, task[t].b \notin paired)

\* Boot: ReconcileOverlaySubscriptions reads the broadcasters with active devices.
Boot(t) ==
  /\ ~booted
  /\ booted' = TRUE
  /\ Start(t, [Done EXCEPT !.pc = "list", !.keep = paired])
  /\ clean' = (Running = {})
  /\ UNCHANGED <<paired, subs, failures>>

\* ListEventSubSubscriptions.  Unsubscribing deletes the broadcaster's; reconciling
\* creates what no enabled subscription covers and deletes those of the unpaired.
Plan(r, ours, covered) ==
  IF r.b # NoOne
  THEN [r EXCEPT !.pc = "calls", !.delete = {s \in ours : s.b = r.b}]
  ELSE [r EXCEPT !.pc = "calls",
                 !.create = (r.keep \X Types) \ covered,
                 !.delete = {s \in ours : s.b \notin r.keep}]
ListThen(t, ours, covered) ==
  /\ task[t].pc = "list"
  /\ task' = [task EXCEPT ![t] = Plan(@, ours, covered)]
  /\ UNCHANGED <<paired, subs, booted, failures, clean>>

Ours == {s \in subs : IsOverlaySub(s)}
\* Mutant: the status of a subscription is forgotten.
ListAnyStatus(t) == ListThen(t, Ours, {<<s.b, s.type>> : s \in Ours})
ListSubs(t) == ListThen(t, Ours, On(Ours))

\* An id nobody remembers.
Remembered(r) == r.delete \cup UNION {p.delete : p \in r.todo}
FreshIds == {id \in Ids : \A s \in subs \cup UNION {Remembered(task[t]) : t \in Tasks} : s.id # id}

\* What a create and a delete do to Twitch's list: 409 if it is there already, 404 if it
\* is gone, which the client takes for success.
AttemptNewSubscription(want, fresh) ==
  IF want \in On(subs)
  THEN UNCHANGED subs
  ELSE /\ fresh # {}
       /\ subs' = subs \cup {[b |-> want[1], type |-> want[2], on |-> TRUE,
                              id |-> CHOOSE id \in fresh : TRUE]}
DeleteEventSubSubscription(s) == subs' = {o \in subs : o.id # s.id}

\* createOverlaySub for each type, or the bot's list of creates: a failing one is skipped.
Create(t) ==
  /\ task[t].pc = "calls"
  /\ \E want \in task[t].create :
       /\ task' = [task EXCEPT ![t].create = @ \ {want}]
       /\ AttemptNewSubscription(want, FreshIds)
  /\ UNCHANGED <<paired, booted, failures, clean>>

\* The deletes, after the creates of a reconcile.
Delete(t) ==
  /\ task[t].pc = "calls" /\ task[t].create = {}
  /\ \E s \in task[t].delete :
       /\ task' = [task EXCEPT ![t].delete = @ \ {s}]
       /\ DeleteEventSubSubscription(s)
  /\ UNCHANGED <<paired, booted, failures, clean>>

\* A call fails: that create, that delete, or the whole task after a failed list.
CallFails(t) ==
  /\ failures < MaxFailures
  /\ failures' = failures + 1
  /\ \/ task[t].pc = "list" /\ task' = [task EXCEPT ![t] = Done]
     \/ /\ task[t].pc = "calls"
        /\ \/ \E w \in task[t].create : task' = [task EXCEPT ![t].create = @ \ {w}]
           \/ /\ task[t].create = {}
              /\ \E s \in task[t].delete : task' = [task EXCEPT ![t].delete = @ \ {s}]
  /\ clean' = FALSE
  /\ UNCHANGED <<paired, subs, booted>>

\* Twitch disables a subscription: authorisation withdrawn, callback unreachable.
Disabled(s) ==
  /\ failures < MaxFailures /\ s.on
  /\ failures' = failures + 1
  /\ subs' = (subs \ {s}) \cup {[s EXCEPT !.on = FALSE]}
  /\ clean' = (clean /\ ~IsOverlaySub(s))
  /\ UNCHANGED <<paired, task, booted>>

Finish(t) ==
  /\ task[t].pc = "calls" /\ task[t].create = {} /\ task[t].delete = {}
  /\ task[t].op # "banish"
  /\ task' = [task EXCEPT ![t] = Done]
  /\ UNCHANGED <<paired, subs, booted, failures, clean>>

\* core-api restarts: what it was running is forgotten.
CoreApi == {t \in Running : task[t].op \in {"overlay", "signin"}}
Restart ==
  /\ booted
  /\ booted' = FALSE
  /\ task' = [t \in Tasks |-> IF t \in CoreApi THEN Done ELSE task[t]]
  /\ clean' = (clean /\ Running = {})
  /\ UNCHANGED <<paired, subs, failures>>

TaskStep(t) == CountRemaining(t) \/ ListSubs(t) \/ Create(t) \/ Delete(t) \/ Finish(t)
-----------------------------------------------------------------------------
Quiet == booted /\ Running = {}
Converged == On(Ours) = paired \X Types

\* The reconcile repairs: once it has run alone, and while requests do not overlap and
\* no call fails, exactly the paired broadcasters have exactly the overlay's types.
CleanConverges == Quiet /\ clean => Converged /\ \A s \in Ours : s.b \in paired

\* "a broadcaster wants cheer / redemption events exactly when they ... have a device"
\* (service.go:54-57): with no failure at all, once nothing is in flight.
QuietConverges == Quiet /\ failures = 0 => Converged
=============================================================================
