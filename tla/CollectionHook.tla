---------------------------- MODULE CollectionHook ----------------------------
(***************************************************************************)
(* A collection under React: useCollectionStore keeps the whole list in    *)
(* one slot of the cache and edits it around create, update and remove     *)
(* of store.ts.                                                            *)
(*                                                                         *)
(* What runs between two awaits is one action.  A list is a function from  *)
(* ids: its order is left out.  A value is the number of the call that     *)
(* wrote it and its own contentHash; the list may hold it as the call was  *)
(* given it, before the schema.                                            *)
(***************************************************************************)
EXTENDS AppSession, FiniteSets, Functions

CONSTANTS Ids, NoList, None

NoRow == 0
Listed == 20        \* what a listed row holds at first
Elsewhere == 21     \* what another device writes
EditCalls == {"create", "update", "remove"}

\* The id of a create is the one its generator is about to return: a new one.
ASSUME CollectionAssumption ==
    /\ \A p \in Plans : /\ p.listed \subseteq Ids
                        /\ p.calls \in Seq([call : EditCalls, id : Ids]) /\ Len(p.calls) < 10
                        /\ p.shows \in BOOLEAN
                        /\ \A i, j \in DOMAIN p.calls :
                              p.calls[i].call = "create" /\ p.calls[j].call = "create"
                              => /\ p.calls[i].id \notin p.listed
                                 /\ p.calls[i].id = p.calls[j].id => i = j

VARIABLES
    record,     \* [Users -> [Ids -> value]], on the server
    items,      \* [Users -> the cached list]
    view,       \* the mounted hook: deps of its effect, its list() call, its error
    edit,       \* [1 .. Len(plan.calls) -> the call]
    disorder,   \* history: users for whom two calls met, or met a list()
    strayed     \* history: users whose rows changed without the list

collectionVars == << record, items, view, edit, disorder, strayed >>

ItemValues == {NoRow, Listed, Elsewhere} \cup 1 .. 9
ItemEntries == [data : ItemValues \cup PassedValues, hash : ItemValues \cup {None}]
Items == UNION {[S -> ItemEntries] : S \in SUBSET Ids}
\* `by' is history: who set the list.
Lists == [all : Items, by : {"effect", "gap", "call"}]
Views == [seen : Nat, listing : {"no", "sent", "read"}, rows : Items, error : BOOLEAN]
EditStates == [stage : {"idle", "sent", "second", "landed", "conflict", "done"}, session : Nat,
               previous : Items, expected : ItemValues \cup {None}]

ASSUME NoListAssumption == NoList \notin Lists /\ None \notin ItemValues

EmptyList == [x \in {} |-> NoRow]
IdleEdit == [stage |-> "idle", session |-> 1, previous |-> EmptyList, expected |-> None]

Edits == 1 .. Len(plan.calls)
EditOf(i) == plan.calls[i].call
IdOf(i) == plan.calls[i].id
EditUser(i) == UserOf(edit[i].session)
EditInFlight(i) == edit[i].stage \notin {"idle", "done"}
EditMeets(u) == \E i \in Edits : EditInFlight(i) /\ EditUser(i) = u

CollectionInit ==
    /\ record = [u \in Users |-> [x \in Ids |-> IF x \in plan.listed THEN Listed ELSE NoRow]]
    /\ items = [u \in Users |-> NoList]
    /\ view = [seen |-> IF plan.shows THEN NeverSeen ELSE Unmounted,
               listing |-> "no", rows |-> EmptyList, error |-> FALSE]
    /\ edit = [i \in Edits |-> IdleEdit]
    /\ disorder = {}
    /\ strayed = {}

-----------------------------------------------------------------------------
(* The server.                                                              *)

ItemHash(v) ==
    IF Hashed /\ v # NoRow /\ ~(plan.unhashed /\ v = Listed) THEN v ELSE None
ListAll(u) ==
    [x \in {y \in Ids : record[u][y] # NoRow} |->
        [data |-> record[u][x], hash |-> ItemHash(record[u][x])]]

\* updateByIdIfMatch with null inserts the row or writes one without a hash.
UpdateIfMatch_Blind(r, expected) == r # NoRow
UpdateIfMatch(r, expected) == ItemHash(r) = expected
\* The supabase adapter's, in two trips for null.
UpdateInTrips(r, expected, second) ==
    CASE expected # None -> r # NoRow /\ ItemHash(r) = expected
      [] ~second         -> r = NoRow
      [] OTHER           -> r # NoRow /\ ItemHash(r) = None
\* updateById: no row, no effect.
UpdateById(r, v) == IF r = NoRow THEN r ELSE v

-----------------------------------------------------------------------------
(* The effect.                                                              *)

ViewRendered == view.seen \in {Unmounted, Handle}

ListSkipped ==
    /\ ~ViewRendered
    /\ ~unlocked \/ items[UserOf(session)] # NoList
    /\ view' = [view EXCEPT !.seen = Handle, !.listing = "no", !.rows = EmptyList,
                            !.error = FALSE]
    /\ UNCHANGED << record, items, edit, disorder, strayed >>

\* No registry: every effect has its own call of list().
ListStarts ==
    /\ ~ViewRendered
    /\ unlocked
    /\ items[UserOf(session)] = NoList
    /\ view' = [seen |-> Handle, listing |-> "sent", rows |-> EmptyList, error |-> FALSE]
    /\ disorder' = IF EditMeets(UserOf(session)) THEN disorder \cup {UserOf(session)}
                   ELSE disorder
    /\ UNCHANGED << record, items, edit, strayed >>

ViewUnmounts ==
    /\ view.seen # Unmounted
    /\ view' = [seen |-> Unmounted, listing |-> "no", rows |-> EmptyList, error |-> FALSE]
    /\ UNCHANGED << record, items, edit, disorder, strayed >>

ListReads ==
    /\ view.listing = "sent"
    /\ view' = [view EXCEPT !.listing = "read", !.rows = ListAll(UserOf(view.seen))]
    /\ UNCHANGED << record, items, edit, disorder, strayed >>

ListResolves ==
    /\ view.listing = "read"
    /\ items' = [items EXCEPT ![UserOf(view.seen)] =
                    [all |-> view.rows, by |-> IF view.seen = Handle THEN "effect" ELSE "gap"]]
    /\ view' = [view EXCEPT !.listing = "no", !.rows = EmptyList]
    /\ UNCHANGED << record, edit, disorder, strayed >>

ListFails ==
    /\ view.listing # "no"
    /\ view' = [view EXCEPT !.listing = "no", !.rows = EmptyList, !.error = TRUE]
    /\ UNCHANGED << record, items, edit, disorder, strayed >>

-----------------------------------------------------------------------------
(* create, update, remove: each remembers the list it found and edits that. *)

Found(u) == IF items[u] = NoList THEN EmptyList ELSE items[u].all
HashIn(list, x) == IF x \in DOMAIN list THEN list[x].hash ELSE None
Edited(list, x, v, hash) ==
    [y \in DOMAIN list |-> IF y = x THEN [data |-> v, hash |-> hash] ELSE list[y]]
Shown(u, list) == [items EXCEPT ![u] = [all |-> list, by |-> "call"]]

\* The list while the call is under way.
Optimistic(i, list, hash) ==
    CASE EditOf(i) = "update" -> Edited(list, IdOf(i), Passed(i), hash)
      [] EditOf(i) = "remove" -> Restrict(list, DOMAIN list \ {IdOf(i)})

EditBegins(i) ==
    /\ edit[i].stage = "idle"
    /\ view.seen \in 1 .. session       \* a callback of the latest render
    /\ LET n == view.seen
           u == UserOf(n)
           previous == Found(u)
           hash == HashIn(previous, IdOf(i))
       IN  /\ edit' = [edit EXCEPT ![i] = [stage |-> "sent", session |-> n,
                                           previous |-> previous, expected |-> hash]]
           /\ items' = IF EditOf(i) = "create" THEN items
                       ELSE Shown(u, Optimistic(i, previous, hash))
           \* another call under way, the first list not there yet, or an
           \* update of an item that is not in it (a locked store inserts it)
           /\ disorder' = IF \/ EditMeets(u) \/ items[u] = NoList
                             \/ EditOf(i) = "update" /\ IdOf(i) \notin DOMAIN previous
                          THEN disorder \cup {u} ELSE disorder
    /\ UNCHANGED << record, view, strayed >>

EditAccepted(i) ==
    EditOf(i) = "update" /\ plan.kind = "locked" =>
        LET r == record[EditUser(i)][IdOf(i)]
        IN  IF TwoTrips THEN UpdateInTrips(r, edit[i].expected, edit[i].stage = "second")
            ELSE UpdateIfMatch(r, edit[i].expected)

EditLands(i) ==
    LET u == EditUser(i)
        x == IdOf(i)
    IN  /\ edit[i].stage \in {"sent", "second"}
        /\ EditAccepted(i)
        /\ record' = [record EXCEPT ![u][x] =
               CASE EditOf(i) = "create" -> i
                 [] EditOf(i) = "remove" -> NoRow
                 [] OTHER -> IF plan.kind = "locked" THEN i ELSE UpdateById(@, i)]
        /\ edit' = [edit EXCEPT ![i].stage = "landed"]
        /\ UNCHANGED << items, view, disorder, strayed >>

EditRefused(i) ==
    /\ edit[i].stage \in {"sent", "second"}
    /\ ~EditAccepted(i)
    /\ edit' = [edit EXCEPT ![i].stage =
                    IF TwoTrips /\ edit[i].expected = None /\ edit[i].stage = "sent"
                    THEN "second" ELSE "conflict"]
    /\ UNCHANGED << record, items, view, disorder, strayed >>

\* The list a call leaves: its own edit, as it was given, of the list found.
Outcome(i) ==
    LET previous == edit[i].previous
        x == IdOf(i)
    IN  IF EditOf(i) = "create"
        THEN [y \in DOMAIN previous \cup {x} |->
                 IF y = x THEN [data |-> Passed(i), hash |-> None] ELSE previous[y]]
        ELSE Edited(previous, x, Passed(i), IF plan.kind = "locked" THEN i ELSE None)

EditResolves(i) ==
    /\ edit[i].stage = "landed"
    /\ items' = IF EditOf(i) = "remove" THEN items ELSE Shown(EditUser(i), Outcome(i))
    /\ edit' = [edit EXCEPT ![i] = [IdleEdit EXCEPT !.stage = "done"]]
    /\ UNCHANGED << record, view, disorder, strayed >>

\* A conflict, or a step that throws: the list goes back to what was found.
Restored_Kept(i) == items
Restored(i) == Shown(EditUser(i), edit[i].previous)

EditConflicts(i) ==
    /\ edit[i].stage = "conflict"
    /\ items' = Restored(i)
    /\ edit' = [edit EXCEPT ![i] = [IdleEdit EXCEPT !.stage = "done"]]
    /\ UNCHANGED << record, view, disorder, strayed >>

EditFails(i) ==
    /\ edit[i].stage \in {"sent", "second", "landed"}
    /\ items' = Restored(i)
    /\ edit' = [edit EXCEPT ![i] = [IdleEdit EXCEPT !.stage = "done"]]
    /\ strayed' = IF edit[i].stage = "landed" THEN strayed \cup {EditUser(i)} ELSE strayed
    /\ UNCHANGED << record, view, disorder >>

-----------------------------------------------------------------------------
(* Another device, and the lock.                                            *)

ForeignEdit(u, x) ==
    /\ record' = [record EXCEPT ![u][x] = IF @ = NoRow THEN NoRow ELSE Elsewhere]
    /\ record' # record
    /\ strayed' = strayed \cup {u}
    /\ UNCHANGED << items, view, edit, disorder >>

ForeignRemove(u, x) ==
    /\ record[u][x] # NoRow
    /\ record' = [record EXCEPT ![u][x] = NoRow]
    /\ strayed' = strayed \cup {u}
    /\ UNCHANGED << items, view, edit, disorder >>

WipeCollection ==
    /\ items' = [u \in Users |-> NoList]
    /\ disorder' = {u \in disorder : EditMeets(u) \/ view.listing # "no"}
    /\ strayed' = {u \in strayed : EditMeets(u) \/ view.listing # "no"}
    /\ UNCHANGED << record, view, edit >>
===============================================================================
