-------------------------- MODULE PolicyPermissions --------------------------
(***************************************************************************)
(* What the permissions of a policy promise to those who change them, with *)
(* no perm maps, ids, permGroups or rows: who has which permission is one  *)
(* set; a form opens with that set; grants, revocations and saves take     *)
(* effect as they end, one at a time, each on nothing but what it names.   *)
(* What is not promised is said by two marks: a request that ends over one *)
(* it has not seen (raced), and a save of a form that names what is gone   *)
(* (stale).                                                                *)
(*                                                                         *)
(* PolicyEditor implements this specification.                             *)
(***************************************************************************)
CONSTANTS
    Pair,      \* users and groups, each with a permission
    Admin,     \* those who save forms
    Request    \* those who grant, replace and revoke

VARIABLES
    granted,   \* the pairs that are granted
    open,      \* the administrators with an open form
    shown,     \* what each form shows
    pending,   \* the requests under way
    raced, stale

permissionVars == <<granted, open, shown, pending, raced, stale>>

PermissionsInit ==
    /\ granted = {}
    /\ open = {}
    /\ shown = [a \in Admin |-> {}]
    /\ pending = {}
    /\ raced = FALSE
    /\ stale = FALSE

Undisturbed(c) == \A t \in pending : t.by # c

\* At most what a shows changes.
OthersShown(a) ==
    /\ shown' \in [Admin -> SUBSET Pair]
    /\ \A b \in Admin \ {a} : shown'[b] = shown[b]

Open(a) ==
    /\ a \notin open
    /\ open' = open \cup {a}
    /\ OthersShown(a)
    /\ raced \/ stale \/ shown'[a] = granted
    /\ UNCHANGED <<granted, pending, raced, stale>>

Edit(a) ==
    /\ a \in open /\ Undisturbed(a)
    /\ OthersShown(a)
    /\ UNCHANGED <<granted, open, pending, raced, stale>>

Leave(a) ==
    /\ a \in open /\ Undisturbed(a)
    /\ open' = open \ {a}
    /\ shown' = [shown EXCEPT ![a] = {}]
    /\ UNCHANGED <<granted, pending, raced, stale>>

Begin(c, op, asked) ==
    /\ Undisturbed(c)
    /\ pending' = pending \cup {[by |-> c, op |-> op, asked |-> asked, overtaken |-> FALSE]}
    /\ UNCHANGED <<granted, open, shown, raced, stale>>

Save(a) == a \in open /\ Begin(a, "save", {})

Ask(r) ==
    \E op \in {"grant", "replace", "revoke"}, asked \in SUBSET Pair : Begin(r, op, asked)

\* The other requests under way have not seen what t does.
End(t) ==
    /\ pending' = {[u EXCEPT !.overtaken = TRUE] : u \in pending \ {t}}
    /\ raced' = (raced \/ t.overtaken)

\* What a request gives, and what it takes from those it names.
Gives(t) == IF t.op = "revoke" THEN {} ELSE t.asked
Takes(t) ==
    CASE t.op = "grant" -> {}
      [] t.op = "revoke" -> t.asked
      [] t.op = "replace" -> {pair \in Pair : \E named \in t.asked : pair[1] = named[1]}

\* Even a request that was overtaken gives and takes nothing else.  What was granted
\* twice in a race may outlive a revocation.
EndRequest(t) ==
    /\ t.op # "save"
    /\ End(t)
    /\ granted \ Takes(t) \subseteq granted'
    /\ granted' \subseteq granted \cup Gives(t)
    /\ ~t.overtaken => Gives(t) \subseteq granted'
    /\ ~t.overtaken /\ (raced => t.op = "replace")
            => granted' \cap Takes(t) \subseteq Gives(t)
    /\ UNCHANGED <<open, shown, stale>>

\* A save makes what the form shows what is granted.
EndSave(t) ==
    /\ t.op = "save"
    /\ End(t)
    /\ stale => stale'
    /\ ~t.overtaken /\ ~stale' => granted' = shown[t.by]
    /\ open' = open \ {t.by}
    /\ shown' = [shown EXCEPT ![t.by] = {}]

Rollback(t) ==
    /\ pending' = pending \ {t}
    /\ UNCHANGED <<granted, open, shown, raced, stale>>

PermissionsNext ==
    \/ \E a \in Admin : Open(a) \/ Edit(a) \/ Leave(a) \/ Save(a)
    \/ \E r \in Request : Ask(r)
    \/ \E t \in pending : EndRequest(t) \/ EndSave(t) \/ Rollback(t)

PermissionsSpec == PermissionsInit /\ [][PermissionsNext]_permissionVars
=============================================================================
