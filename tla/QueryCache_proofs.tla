------------------------- MODULE QueryCache_proofs -------------------------
(* What the operations on an entry of the query cache keep, whoever asks    *)
(* and whatever is answered: the lemmas that the proofs about the pages     *)
(* (WebSession, CardPages, FlagPage) share.                                 *)
EXTENDS Integers, QueryCache, FiniteSetTheorems, TLAPS

----------------------------------------------------------------------------
(* An entry of the cache, whoever asks for it and whatever is answered *)

LEMMA EmptyEntry == \A A, V : Empty \in Entries(A, V)
  BY DEF Empty, Entries

Requests(A, V) == [by : A, got : SUBSET V, raced : BOOLEAN]

LEMMA EntryIsRecord ==
  ASSUME NEW A, NEW V
  PROVE  Entries(A, V) = [data : SUBSET V, stale : BOOLEAN, raced : BOOLEAN, fetch : SUBSET Requests(A, V)]
  BY DEF Entries, Requests

LEMMA RequestType ==
  ASSUME NEW A, NEW V, NEW by \in A
  PROVE  {Request(by)} \in SUBSET Requests(A, V)
  BY DEF Request, Requests

LEMMA FetchEntry ==
  ASSUME NEW A, NEW V, NEW e \in Entries(A, V), NEW by \in A
  PROVE  Fetch(e, by) \in Entries(A, V)
  BY EntryIsRecord, RequestType DEF Fetch

LEMMA EnsureEntry ==
  ASSUME NEW A, NEW V, NEW e \in Entries(A, V), NEW by \in A
  PROVE  EnsureData(e, by) \in Entries(A, V)
  BY FetchEntry DEF EnsureData

LEMMA MountEntry ==
  ASSUME NEW A, NEW V, NEW e \in Entries(A, V), NEW by \in A
  PROVE  Mount(e, by) \in Entries(A, V)
  BY FetchEntry DEF Mount

LEMMA OvertakenType ==
  ASSUME NEW A, NEW V, NEW f \in SUBSET Requests(A, V)
  PROVE  Overtaken(f) \in SUBSET Requests(A, V)
  <1>1. \A r \in f : [r EXCEPT !.raced = r.got # {}] \in Requests(A, V)
    BY DEF Requests
  <1>. QED  BY <1>1 DEF Overtaken

LEMMA InvalidateEntry ==
  ASSUME NEW A, NEW V, NEW e \in Entries(A, V), NEW observed \in BOOLEAN, NEW by,
         observed => by \in A
  PROVE  Invalidate(e, observed, by) \in Entries(A, V)
  <1>1. CASE observed /\ (e.data # {} \/ e.fetch = {})
    <2>1. {Request(by)} \in SUBSET Requests(A, V)
      BY <1>1, RequestType
    <2>. QED  BY <1>1, <2>1, EntryIsRecord DEF Invalidate
  <1>2. CASE ~(observed /\ (e.data # {} \/ e.fetch = {}))
    <2>1. Overtaken(e.fetch) \in SUBSET Requests(A, V)
      BY OvertakenType, EntryIsRecord
    <2>. QED  BY <1>2, <2>1, EntryIsRecord DEF Invalidate
  <1>. QED  BY <1>1, <1>2

LEMMA AnswerEntry ==
  ASSUME NEW A, NEW V, NEW e \in Entries(A, V), NEW v \in V
  PROVE  Answer(e, v) \in Entries(A, V)
  <1>1. \A r \in e.fetch : [r EXCEPT !.got = {v}] \in Requests(A, V)
    <2>1. e.fetch \in SUBSET Requests(A, V)
      BY EntryIsRecord
    <2>. QED  BY <2>1 DEF Requests
  <1>2. {[r EXCEPT !.got = {v}] : r \in e.fetch} \in SUBSET Requests(A, V)
    BY <1>1
  <1>. QED  BY <1>2, EntryIsRecord DEF Answer

LEMMA LandEntry ==
  ASSUME NEW A, NEW V, NEW e \in Entries(A, V), e.fetch # {}
  PROVE  Land(e) \in Entries(A, V)
  <1>. DEFINE r == CHOOSE r \in e.fetch : TRUE
  <1>1. r \in Requests(A, V)
    BY EntryIsRecord
  <1>2. r.got \in SUBSET V /\ r.raced \in BOOLEAN
    BY <1>1 DEF Requests
  <1>. HIDE DEF r
  <1>3. [data |-> r.got, stale |-> FALSE, raced |-> r.raced, fetch |-> {}] \in Entries(A, V)
    BY <1>2, EntryIsRecord
  <1>. QED  BY <1>3 DEF Land, r

LEMMA FailEntry ==
  ASSUME NEW A, NEW V, NEW e \in Entries(A, V)
  PROVE  Fail(e) \in Entries(A, V)
  BY EntryIsRecord DEF Fail

LEMMA StaleEntry ==
  ASSUME NEW A, NEW V, NEW e \in Entries(A, V)
  PROVE  [e EXCEPT !.stale = TRUE] \in Entries(A, V)
  BY EntryIsRecord

(* An empty entry that nobody observes stays so when it is invalidated. *)
LEMMA InvalidateEmpty ==
  ASSUME NEW by
  PROVE  Invalidate(Empty, FALSE, by) = Empty
  BY DEF Invalidate, Empty, Overtaken

----------------------------------------------------------------------------
(* An entry holds one value and has one request under way, with one answer. *)

Single(S) == \A x, y \in S : x = y

Lone(e) == Single(e.data) /\ Single(e.fetch) /\ \A r \in e.fetch : Single(r.got)

LEMMA SingleCardinality ==
  ASSUME NEW S, Single(S)
  PROVE  Cardinality(S) <= 1
  <1>1. CASE S = {}
    BY <1>1, FS_EmptySet
  <1>2. CASE S # {}
    <2>1. PICK x \in S : TRUE
      BY <1>2
    <2>2. S = {x}
      BY <2>1 DEF Single
    <2>. QED  BY <2>2, FS_Singleton
  <1>. QED  BY <1>1, <1>2

(* The entry with a request sent anew. *)
LEMMA Refetched ==
  ASSUME NEW A, NEW V, NEW e \in Entries(A, V), NEW by
  PROVE  LET n == [e EXCEPT !.fetch = {Request(by)}]
         IN  /\ n.data = e.data /\ n.stale = e.stale /\ n.raced = e.raced
             /\ n.fetch # {} /\ Single(n.fetch) /\ \A r \in n.fetch : r.got = {}
  <1>. DEFINE q == Request(by)
              n == [e EXCEPT !.fetch = {q}]
  <1>1. q.got = {}
    BY DEF Request
  <1>. HIDE DEF q
  <1>2. n.data = e.data /\ n.stale = e.stale /\ n.raced = e.raced /\ n.fetch = {q}
    BY EntryIsRecord
  <1>. HIDE DEF n
  <1>3. n.fetch # {} /\ Single(n.fetch) /\ \A r \in n.fetch : r.got = {}
    BY <1>1, <1>2 DEF Single
  <1>. QED  BY <1>2, <1>3 DEF n, q

(* A request that is left under way has no answer yet, or counts as raced. *)
LEMMA OvertakenRaced ==
  ASSUME NEW A, NEW V, NEW f \in SUBSET Requests(A, V)
  PROVE  /\ \A r \in Overtaken(f) : r.got = {} \/ r.raced
         /\ Overtaken(f) # {} <=> f # {}
  <1>1. ASSUME NEW r \in f, r.got # {} PROVE [r EXCEPT !.raced = r.got # {}].raced
    <2>1. r \in [by : A, got : SUBSET V, raced : BOOLEAN]
      BY DEF Requests
    <2>2. [r EXCEPT !.raced = r.got # {}] = [r EXCEPT !.raced = TRUE]
      BY <1>1
    <2>3. [r EXCEPT !.raced = TRUE].raced = TRUE
      BY <2>1
    <2>. QED  BY <2>2, <2>3
  <1>2. ASSUME NEW r \in f PROVE [r EXCEPT !.raced = r.got # {}].got = r.got
    BY DEF Requests
  <1>. QED  BY <1>1, <1>2 DEF Overtaken

LEMMA LoneEmpty == Lone(Empty)
  BY DEF Empty, Lone, Single

LEMMA LoneRefetch ==
  ASSUME NEW A, NEW V, NEW e \in Entries(A, V), NEW by, Lone(e)
  PROVE  Lone([e EXCEPT !.fetch = {Request(by)}])
  <1>. DEFINE n == [e EXCEPT !.fetch = {Request(by)}]
  <1>1. n.data = e.data /\ Single(n.fetch) /\ \A r \in n.fetch : r.got = {}
    BY Refetched
  <1>. HIDE DEF n
  <1>2. Lone(n)
    BY <1>1 DEF Lone, Single
  <1>. QED  BY <1>2 DEF n

LEMMA LoneFetch ==
  ASSUME NEW A, NEW V, NEW e \in Entries(A, V), NEW by, Lone(e)
  PROVE  Lone(Fetch(e, by)) /\ Lone(EnsureData(e, by)) /\ Lone(Mount(e, by))
  BY LoneRefetch DEF Fetch, EnsureData, Mount

LEMMA LoneInvalidate ==
  ASSUME NEW A, NEW V, NEW e \in Entries(A, V), NEW observed, NEW by, Lone(e)
  PROVE  Lone(Invalidate(e, observed, by))
  <1>1. Single(Overtaken(e.fetch)) /\ \A r \in Overtaken(e.fetch) : Single(r.got)
    <2>1. e.fetch \in SUBSET Requests(A, V)
      BY EntryIsRecord
    <2>. QED  BY <2>1 DEF Overtaken, Lone, Single, Requests
  <1>2. Single({Request(by)}) /\ \A r \in {Request(by)} : Single(r.got)
    BY DEF Request, Single
  <1>. QED  BY <1>1, <1>2, EntryIsRecord DEF Invalidate, Lone

LEMMA LoneAnswer ==
  ASSUME NEW A, NEW V, NEW e \in Entries(A, V), NEW v, Lone(e)
  PROVE  Lone(Answer(e, v))
  <1>. DEFINE f == {[r EXCEPT !.got = {v}] : r \in e.fetch}
  <1>1. Single(f) /\ \A r \in f : Single(r.got)
    <2>1. e.fetch \in SUBSET Requests(A, V)
      BY EntryIsRecord
    <2>. QED  BY <2>1 DEF Lone, Single, Requests
  <1>. HIDE DEF f
  <1>2. [e EXCEPT !.fetch = f].data = e.data /\ [e EXCEPT !.fetch = f].fetch = f
    BY EntryIsRecord
  <1>. QED  BY <1>1, <1>2 DEF Answer, Lone, f

(* What lands is what the one request was answered. *)
LEMMA LandLone ==
  ASSUME NEW e, Lone(e), NEW r \in e.fetch
  PROVE  Land(e) = [data |-> r.got, stale |-> FALSE, raced |-> r.raced, fetch |-> {}]
  <1>1. (CHOOSE x \in e.fetch : TRUE) = r
    BY DEF Lone, Single
  <1>. QED  BY <1>1 DEF Land

LEMMA LoneLand ==
  ASSUME NEW e, Lone(e), e.fetch # {}
  PROVE  Lone(Land(e))
  <1>1. PICK r \in e.fetch : TRUE
    OBVIOUS
  <1>. QED  BY <1>1, LandLone DEF Lone, Single

----------------------------------------------------------------------------
(* An entry is sound if the values in it are good, or known to be stale, or   *)
(* arrived after an invalidation they may be older than.                      *)

Sound(e, good) ==
    /\ e.data \subseteq good \/ e.stale \/ e.raced
    /\ \A r \in e.fetch : r.got \subseteq good \/ r.raced

(* The same of an entry that is observed: it does not stay stale. *)
Kept(e, good) == e.data \subseteq good \/ e.raced \/ e.fetch # {}

LEMMA SoundEmpty == \A good : Sound(Empty, good)
  BY DEF Empty, Sound

LEMMA SoundMore ==
  ASSUME NEW e, NEW good, NEW better, good \subseteq better
  PROVE  (Sound(e, good) => Sound(e, better)) /\ (Kept(e, good) => Kept(e, better))
  BY DEF Sound, Kept

LEMMA SoundFetch ==
  ASSUME NEW A, NEW V, NEW e \in Entries(A, V), NEW by, NEW good, Sound(e, good)
  PROVE  Sound(Fetch(e, by), good) /\ Sound(EnsureData(e, by), good) /\ Sound(Mount(e, by), good)
  BY EntryIsRecord DEF Fetch, EnsureData, Mount, Request, Sound

LEMMA KeptFetch ==
  ASSUME NEW A, NEW V, NEW e \in Entries(A, V), NEW by, NEW good, Kept(e, good)
  PROVE  Kept(EnsureData(e, by), good) /\ Kept(Mount(e, by), good)
  BY EntryIsRecord DEF Fetch, EnsureData, Mount, Request, Kept

(* A component that mounts does not leave bad values alone. *)
LEMMA KeptMount ==
  ASSUME NEW A, NEW V, NEW e \in Entries(A, V), NEW by, NEW good, Sound(e, good)
  PROVE  Kept(Mount(e, by), good)
  BY EntryIsRecord DEF Fetch, Mount, Request, Sound, Kept

LEMMA SoundAnswer ==
  ASSUME NEW A, NEW V, NEW e \in Entries(A, V), NEW good, NEW v \in good, Sound(e, good)
  PROVE  Sound(Answer(e, v), good)
  <1>. DEFINE f == {[r EXCEPT !.got = {v}] : r \in e.fetch}
  <1>1. (\A r \in f : r.got = {v}) /\ (f # {} <=> e.fetch # {})
    <2>1. e.fetch \in SUBSET Requests(A, V)
      BY EntryIsRecord
    <2>. QED  BY <2>1 DEF Requests
  <1>. HIDE DEF f
  <1>2. /\ [e EXCEPT !.fetch = f].data = e.data /\ [e EXCEPT !.fetch = f].fetch = f
        /\ [e EXCEPT !.fetch = f].stale = e.stale /\ [e EXCEPT !.fetch = f].raced = e.raced
    BY EntryIsRecord
  <1>. QED  BY <1>1, <1>2 DEF Answer, Sound, f

LEMMA SoundLand ==
  ASSUME NEW e, NEW good, Lone(e), e.fetch # {}, Sound(e, good)
  PROVE  Sound(Land(e), good) /\ Kept(Land(e), good)
  <1>1. PICK r \in e.fetch : TRUE
    OBVIOUS
  <1>. QED  BY <1>1, LandLone DEF Sound, Kept

LEMMA SoundStale ==
  ASSUME NEW A, NEW V, NEW e \in Entries(A, V), NEW good, Sound(e, good)
  PROVE  /\ Sound([e EXCEPT !.stale = TRUE], good)
         /\ Kept(e, good) => Kept([e EXCEPT !.stale = TRUE], good)
  BY EntryIsRecord DEF Sound, Kept

(* Whatever an entry holds and whatever is under way: an invalidation sees   *)
(* to it that none of it passes for newer than the invalidation.             *)
LEMMA InvalidateMakesSound ==
  ASSUME NEW A, NEW V, NEW e \in Entries(A, V), NEW observed \in BOOLEAN, NEW by, NEW good
  PROVE  /\ Sound(Invalidate(e, observed, by), good)
         /\ observed => Kept(Invalidate(e, observed, by), good)
  <1>1. CASE observed /\ (e.data # {} \/ e.fetch = {})
    <2>. DEFINE q == Request(by)
                i == [e EXCEPT !.stale = (e.data # {}), !.fetch = {q}]
    <2>1. q.got = {}
      BY DEF Request
    <2>2. Invalidate(e, observed, by) = i
      BY <1>1 DEF Invalidate
    <2>. HIDE DEF q
    <2>3. i.fetch = {q} /\ i.data = e.data /\ i.stale = (e.data # {})
      BY EntryIsRecord
    <2>. HIDE DEF i
    <2>. QED  BY <2>1, <2>2, <2>3 DEF Sound, Kept
  <1>2. CASE ~(observed /\ (e.data # {} \/ e.fetch = {}))
    <2>. DEFINE f == Overtaken(e.fetch)
    <2>1. (\A r \in f : r.got = {} \/ r.raced) /\ (f # {} <=> e.fetch # {})
      BY OvertakenRaced, EntryIsRecord
    <2>. HIDE DEF f
    <2>. DEFINE i == [e EXCEPT !.stale = (e.data # {}), !.fetch = f]
    <2>2. i.data = e.data /\ i.fetch = f /\ i.stale = (e.data # {})
      BY EntryIsRecord
    <2>3. Invalidate(e, observed, by) = i
      BY <1>2 DEF Invalidate, f
    <2>. HIDE DEF i
    <2>. QED  BY <1>2, <2>1, <2>2, <2>3 DEF Sound, Kept
  <1>. QED  BY <1>1, <1>2
============================================================================
