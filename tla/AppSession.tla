----------------------------- MODULE AppSession ------------------------------
(***************************************************************************)
(* The session the React bindings render: the user and handle that         *)
(* keys.subscribe publishes, and what a behaviour may do.  A lock destroys *)
(* the handle; every unlock gives a new one, which is its number.          *)
(***************************************************************************)
EXTENDS Naturals, Sequences

CONSTANTS
    Users,
    Plans           \* what the app and the world may do in a behaviour

VARIABLES
    plan,           \* the plan of this behaviour
    session,        \* the number of the latest unlock
    unlocked,       \* keys.getCryptoHandle() is set
    left            \* faults and writes of other devices still to come

sessionVars == << plan, session, unlocked, left >>

\* "plain" has no contentHash, "locked" is optimisticLock, "hashed" the rest.
Kinds == {"plain", "hashed", "locked"}
Hashed == plan.kind # "plain"

\* The storage adapter of the app, and whether the rows it finds date from
\* before the store's contentHash.
Adapters == {"pg", "supabase"}
TwoTrips == plan.adapter = "supabase"

UserOf(n) == plan.users[n]
SignedIn(u) == unlocked /\ UserOf(session) = u
Locked == 0
\* What a component that renders now sees of the key provider.
Handle == IF unlocked THEN session ELSE Locked
\* Instead of a handle: a hook that has not rendered, or does no more.
NeverSeen == 98
Unmounted == 99
SessionOver(n) == Handle # n

\* The stores' schema.  Call i is given Passed(i), of which the schema makes
\* the value i; what is stored, and so what is loaded, it leaves as it is.
Unparsed == 30
Passed(i) == Unparsed + i
PassedValues == {Passed(i) : i \in 1 .. 9}
Parse(v) == IF v > Unparsed THEN v - Unparsed ELSE v
Content(entry) == Parse(entry.data)

ASSUME PlanAssumption ==
    \A p \in Plans : /\ p.kind \in Kinds
                     /\ p.adapter \in Adapters /\ p.unhashed \in BOOLEAN
                     /\ p.users \in Seq(Users) /\ p.users # << >>
                     /\ Len(p.users) < NeverSeen
                     /\ p.left \in [faults : Nat, foreign : Nat, leaves : Nat]

SessionTypeOK ==
    /\ plan \in Plans
    /\ session \in 1 .. Len(plan.users)
    /\ unlocked \in BOOLEAN
    /\ left \in [faults : Nat, foreign : Nat, leaves : Nat]

SessionInit ==
    /\ plan \in Plans
    /\ session = 1
    /\ unlocked = TRUE
    /\ left = plan.left

\* The provider drops the handle; whoever keeps a cache wipes it.
Lock ==
    /\ unlocked
    /\ unlocked' = FALSE
    /\ UNCHANGED << plan, session, left >>

Unlock ==
    /\ ~unlocked
    /\ session < Len(plan.users)
    /\ session' = session + 1
    /\ unlocked' = TRUE
    /\ UNCHANGED << plan, left >>

Spend(what) ==
    /\ left[what] > 0
    /\ left' = [left EXCEPT ![what] = @ - 1]
    /\ UNCHANGED << plan, session, unlocked >>

\* A call that needs handle n fails: a fault, or the handle was destroyed.
Fault(n) == IF SessionOver(n) THEN UNCHANGED sessionVars ELSE Spend("faults")
===============================================================================
