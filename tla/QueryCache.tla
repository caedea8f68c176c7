------------------------------ MODULE QueryCache ------------------------------
(***************************************************************************)
(* One entry of the query cache (@tanstack/react-query) that the pages of  *)
(* the frontend share, as a value, and what the frontend's calls do to it. *)
(* Optional values are sets of at most one element.                        *)
(*                                                                         *)
(*   data   what the last fetch that landed returned                       *)
(*   stale  the next observer to mount fetches again: the data was         *)
(*          invalidated, or has outlived its 60 seconds                    *)
(*   fetch  the request under way: the user (or other argument) it was     *)
(*          sent for and what the server has answered                      *)
(*   raced  the server had answered when an invalidation left the request  *)
(*          under way, so its answer may be older than the invalidation    *)
(*          and counts as fresh all the same (a history variable)          *)
(***************************************************************************)

Request(by) == [by |-> by, got |-> {}, raced |-> FALSE]

(* No query: never asked for, removed, or collected after five minutes. *)
Empty == [data |-> {}, stale |-> FALSE, raced |-> FALSE, fetch |-> {}]

Entries(args, values) ==
    [data : SUBSET values, stale : BOOLEAN, raced : BOOLEAN,
     fetch : SUBSET [by : args, got : SUBSET values, raced : BOOLEAN]]

(* A request for a key with one under way waits for that one. *)
Fetch(e, by) ==
    IF e.fetch = {} THEN [e EXCEPT !.fetch = {Request(by)}] ELSE e

(* Loaders take whatever is cached, however old. *)
EnsureData(e, by) == IF e.data = {} THEN Fetch(e, by) ELSE e

(* A component that uses the query mounts, or the window gets the focus. *)
Mount(e, by) == IF e.data = {} \/ e.stale THEN Fetch(e, by) ELSE e

(* A request that is left to land although the data was invalidated. *)
Overtaken(f) == {[r EXCEPT !.raced = r.got # {}] : r \in f}

(* Every query under the key is marked, but only an observed one is fetched *)
(* again, and a request under way is cancelled only if there is data.       *)
Invalidate(e, observed, by) ==
    IF observed /\ (e.data # {} \/ e.fetch = {})
    THEN [e EXCEPT !.stale = (e.data # {}), !.fetch = {Request(by)}]
    ELSE [e EXCEPT !.stale = (e.data # {}), !.fetch = Overtaken(e.fetch)]

Answer(e, value) == [e EXCEPT !.fetch = {[r EXCEPT !.got = {value}] : r \in e.fetch}]

Answered(e) == \E r \in e.fetch : r.got # {}

(* The answer becomes the data and counts as fresh. *)
Land(e) ==
    LET r == CHOOSE r \in e.fetch : TRUE
    IN  [data |-> r.got, stale |-> FALSE, raced |-> r.raced, fetch |-> {}]

(* A fetch that throws, retries included: the old data stays, as stale. *)
Fail(e) == [e EXCEPT !.fetch = {}, !.stale = (e.data # {})]
===============================================================================
