----------------------------- MODULE TimedDict -----------------------------
(***************************************************************************)
(* DefaultDictWithTimeout of servers/utils.py: a default dictionary that   *)
(* forgets the keys nobody touched for its time-to-live.  A dictionary is  *)
(* a value: its items and the keys already older than the TTL.  Nothing is *)
(* forgotten when a key gets old, only when some access, of any key, finds *)
(* the refresh interval elapsed.                                           *)
(***************************************************************************)
Empty == [items |-> [k \in {} |-> k], old |-> {}]

Keys(d) == DOMAIN d.items

(* A dictionary over some set of keys; only a key that is there gets old.  *)
DictOver(d, K) ==
    /\ d = [items |-> d.items, old |-> d.old]
    /\ Keys(d) \subseteq K
    /\ d.old \subseteq Keys(d)

(* The key's time-to-live runs out.                                        *)
Age(d, k) == [d EXCEPT !.old = @ \cup {k}]

(* The dictionary after __refresh, run by an access that has just renewed  *)
(* the keys in touched: the interval has elapsed, or it has not.           *)
Refreshed(d, touched) ==
    LET kept == Keys(d) \ (d.old \ touched)
    IN  {d, [items |-> [k \in kept |-> d.items[k]], old |-> d.old \cap kept]}

(* setdefault refreshes before it renews the key, __getitem__ after.       *)
BeforeSetDefault(d) == Refreshed(d, {})
BeforeGet(d, k) == Refreshed(d, {k})

Value(d, k, default) == IF k \in Keys(d) THEN d.items[k] ELSE default

(* The key gets a value, perhaps the one it had, and is young again.       *)
Put(d, k, v) ==
    [items |-> [x \in Keys(d) \cup {k} |-> IF x = k THEN v ELSE d.items[x]],
     old   |-> d.old \ {k}]

=============================================================================
