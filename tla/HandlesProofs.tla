---------------------------- MODULE HandlesProofs ----------------------------
(***************************************************************************)
(* Handles: no struct is freed twice and the drivers' counters are exact,   *)
(* for all tasks, handles, paths and modes, as long as no program replaces  *)
(* a stream that others have too (ReplacesOwn).                             *)
(***************************************************************************)
EXTENDS Handles, FiniteSetTheorems, TLAPS

-----------------------------------------------------------------------------
(***************************************************************************)
(* The files by themselves: what opening, closing and moving a handle keep. *)
(***************************************************************************)
Exact(f) ==
    \A k \in Kfile : /\ f.readers[k] = Cardinality(With(f, k, "FM_READ"))
                     /\ f.writers[k] = Cardinality(With(f, k, "FM_WRITE"))
                     /\ driver[k] = "VGA_CONTROL" => f.writers[k] <= 1

Inside(f) ==
    \A h \in Handle : driver[f.of[h].res_ptr] = "RAMFILE" => f.of[h].position <= FileSize

Sound(f) == f \in Files /\ Exact(f) /\ Inside(f)

LEMMA FilesParts ==
    ASSUME NEW f \in Files
    PROVE  /\ f = [allocated |-> f.allocated, of |-> f.of,
                   readers |-> f.readers, writers |-> f.writers]
           /\ f.allocated \subseteq Handle /\ f.of \in [Handle -> res_handle]
           /\ f.readers \in [Kfile -> Int] /\ f.writers \in [Kfile -> Int]
BY DEF Files

LEMMA OpenedParts ==
    ASSUME NEW f \in Files, NEW k \in Kfile, NEW mode \in FileMode, NEW h \in Handle
    PROVE  /\ Opened(f, k, mode, h) \in Files
           /\ Opened(f, k, mode, h).allocated = f.allocated \cup {h}
           /\ Opened(f, k, mode, h).of[h] =
                [res_ptr |-> k, filemode |-> mode, position |-> 0]
           /\ \A i \in Handle \ {h} : Opened(f, k, mode, h).of[i] = f.of[i]
           /\ Opened(f, k, mode, h).readers =
                [f.readers EXCEPT ![k] = @ + Counted(mode, "FM_READ")]
           /\ Opened(f, k, mode, h).writers =
                [f.writers EXCEPT ![k] = @ + Counted(mode, "FM_WRITE")]
<1> DEFINE new == [res_ptr |-> k, filemode |-> mode, position |-> 0]
<1>1. new \in res_handle
  BY DEF res_handle
<1>2. Counted(mode, "FM_READ") \in Int /\ Counted(mode, "FM_WRITE") \in Int
  BY DEF Counted
<1> QED
  BY <1>1, <1>2, FilesParts DEF Files, Opened

LEMMA ClosedParts ==
    ASSUME NEW f \in Files, NEW h \in Handle
    PROVE  LET k == f.of[h].res_ptr IN
           /\ Closed(f, h) \in Files
           /\ Closed(f, h).allocated = f.allocated \ {h}
           /\ Closed(f, h).of = f.of
           /\ Closed(f, h).readers =
                [f.readers EXCEPT ![k] = @ - Counted(f.of[h].filemode, "FM_READ")]
           /\ Closed(f, h).writers =
                [f.writers EXCEPT ![k] = @ - Counted(f.of[h].filemode, "FM_WRITE")]
<1> DEFINE k == f.of[h].res_ptr
           mode == f.of[h].filemode
<1>1. k \in Kfile
  BY FilesParts DEF res_handle
<1>2. Counted(mode, "FM_READ") \in Int /\ Counted(mode, "FM_WRITE") \in Int
  BY DEF Counted
<1> QED
  BY <1>1, <1>2, FilesParts DEF Files, Closed

LEMMA MovedParts ==
    ASSUME NEW f \in Files, NEW h \in Handle, NEW n \in Nat
    PROVE  /\ MovedTo(f, h, n) \in Files
           /\ MovedTo(f, h, n).allocated = f.allocated
           /\ MovedTo(f, h, n).readers = f.readers /\ MovedTo(f, h, n).writers = f.writers
           /\ \A i \in Handle : /\ MovedTo(f, h, n).of[i].res_ptr = f.of[i].res_ptr
                               /\ MovedTo(f, h, n).of[i].filemode = f.of[i].filemode
                               /\ MovedTo(f, h, n).of[i].position =
                                    IF i = h THEN n ELSE f.of[i].position
<1> DEFINE of == [f.of EXCEPT ![h] = [f.of[h] EXCEPT !.position = n]]
<1>1. f.of \in [Handle -> res_handle]
  BY FilesParts
<1>2. of \in [Handle -> res_handle]
  BY <1>1 DEF res_handle
<1>3. \A i \in Handle : /\ of[i].res_ptr = f.of[i].res_ptr
                        /\ of[i].filemode = f.of[i].filemode
                        /\ of[i].position = IF i = h THEN n ELSE f.of[i].position
  BY <1>1 DEF res_handle
<1>4. MovedTo(f, h, n) = [f EXCEPT !.of = of]
  BY DEF MovedTo
<1> HIDE DEF of
<1>5. /\ MovedTo(f, h, n) \in Files /\ MovedTo(f, h, n).of = of
      /\ MovedTo(f, h, n).allocated = f.allocated
      /\ MovedTo(f, h, n).readers = f.readers /\ MovedTo(f, h, n).writers = f.writers
  BY <1>2, <1>4 DEF Files
<1> QED
  BY <1>3, <1>5 DEF of

(* One handle more or less is one more or less in each count of its mode.   *)
LEMMA OneMore ==
    ASSUME NEW f \in Files, NEW k \in Kfile, NEW mode \in FileMode,
           NEW h \in Handle \ f.allocated, NEW j \in Kfile, NEW m \in {"FM_READ", "FM_WRITE"}
    PROVE  Cardinality(With(Opened(f, k, mode, h), j, m)) =
             Cardinality(With(f, j, m)) + IF j = k THEN Counted(mode, m) ELSE 0
<1> DEFINE g == Opened(f, k, mode, h)
<1>1. IsFiniteSet(With(f, j, m)) /\ h \notin With(f, j, m)
  BY HandleAssumption, FilesParts, FS_Subset DEF With
<1>2. With(g, j, m) = IF j = k /\ m \in mode THEN With(f, j, m) \cup {h} ELSE With(f, j, m)
  <2>1. h \in Handle /\ f.allocated \subseteq Handle \ {h}
    BY FilesParts
  <2>2. /\ g.allocated = f.allocated \cup {h}
        /\ g.of[h] = [res_ptr |-> k, filemode |-> mode, position |-> 0]
        /\ \A i \in f.allocated : g.of[i] = f.of[i]
    BY <2>1, FilesParts DEF Opened
  <2> HIDE DEF g
  <2> QED
    BY <2>1, <2>2 DEF With
<1>3. /\ Cardinality(With(f, j, m)) \in Nat
      /\ Cardinality(With(f, j, m) \cup {h}) = Cardinality(With(f, j, m)) + 1
  BY <1>1, FS_CardinalityType, FS_AddElement
<1> QED
  BY <1>2, <1>3 DEF Counted

LEMMA OneLess ==
    ASSUME NEW f \in Files, NEW h \in f.allocated, NEW j \in Kfile,
           NEW m \in {"FM_READ", "FM_WRITE"}
    PROVE  Cardinality(With(Closed(f, h), j, m)) =
             Cardinality(With(f, j, m))
               - IF j = f.of[h].res_ptr THEN Counted(f.of[h].filemode, m) ELSE 0
<1> DEFINE g == Closed(f, h)
<1>1. h \in Handle /\ IsFiniteSet(With(f, j, m))
  BY HandleAssumption, FilesParts, FS_Subset DEF With
<1>2. With(g, j, m) = With(f, j, m) \ {h}
  <2>1. g.allocated = f.allocated \ {h} /\ g.of = f.of
    BY <1>1, ClosedParts
  <2> QED
    BY <2>1 DEF With
<1>3. h \in With(f, j, m) <=> j = f.of[h].res_ptr /\ m \in f.of[h].filemode
  BY DEF With
<1>4. /\ Cardinality(With(f, j, m)) \in Nat
      /\ Cardinality(With(f, j, m) \ {h}) =
           IF h \in With(f, j, m) THEN Cardinality(With(f, j, m)) - 1
                                  ELSE Cardinality(With(f, j, m))
  BY <1>1, FS_CardinalityType, FS_RemoveElement
<1> QED
  BY <1>2, <1>3, <1>4 DEF Counted

(* Opening, closing and moving keep the files sound.                        *)
LEMMA OpenedSound ==
    ASSUME NEW f, Sound(f), NEW k \in Kfile, NEW mode \in FileMode,
           NEW h \in Handle \ f.allocated, Opens(f, k, mode)
    PROVE  Sound(Opened(f, k, mode, h))
<1> DEFINE g == Opened(f, k, mode, h)
<1>1. f \in Files /\ h \in Handle
  BY DEF Sound
<1>2. /\ g \in Files
      /\ g.readers = [f.readers EXCEPT ![k] = @ + Counted(mode, "FM_READ")]
      /\ g.writers = [f.writers EXCEPT ![k] = @ + Counted(mode, "FM_WRITE")]
      /\ g.of = [f.of EXCEPT ![h] = [res_ptr |-> k, filemode |-> mode, position |-> 0]]
  <2>1. g \in Files
    BY <1>1, OpenedParts
  <2> QED
    BY <2>1 DEF Opened
<1>3. f.readers \in [Kfile -> Int] /\ f.writers \in [Kfile -> Int] /\ f.of \in [Handle -> res_handle]
  BY <1>1, FilesParts
<1>4. ASSUME NEW j \in Kfile
      PROVE  /\ g.readers[j] = Cardinality(With(g, j, "FM_READ"))
             /\ g.writers[j] = Cardinality(With(g, j, "FM_WRITE"))
             /\ driver[j] = "VGA_CONTROL" => g.writers[j] <= 1
  <2>1. /\ Cardinality(With(g, j, "FM_READ")) = Cardinality(With(f, j, "FM_READ"))
                + IF j = k THEN Counted(mode, "FM_READ") ELSE 0
        /\ Cardinality(With(g, j, "FM_WRITE")) = Cardinality(With(f, j, "FM_WRITE"))
                + IF j = k THEN Counted(mode, "FM_WRITE") ELSE 0
    BY <1>1, OneMore
  <2>2. /\ f.readers[j] = Cardinality(With(f, j, "FM_READ"))
        /\ f.writers[j] = Cardinality(With(f, j, "FM_WRITE"))
        /\ driver[j] = "VGA_CONTROL" => f.writers[j] <= 1
    BY DEF Sound, Exact
  <2>3. /\ g.readers[j] = f.readers[j] + IF j = k THEN Counted(mode, "FM_READ") ELSE 0
        /\ g.writers[j] = f.writers[j] + IF j = k THEN Counted(mode, "FM_WRITE") ELSE 0
        /\ f.readers[j] \in Int /\ f.writers[j] \in Int
    BY <1>2, <1>3
  <2>4. driver[k] = "VGA_CONTROL" /\ "FM_WRITE" \in mode => f.writers[k] = 0
    BY DEF Opens
  <2> HIDE DEF g
  <2> QED
    BY <2>1, <2>2, <2>3, <2>4 DEF Counted
<1>5. Inside(g)
  <2>1. /\ g.of[h].res_ptr = k /\ g.of[h].position = 0
        /\ \A i \in Handle \ {h} : g.of[i] = f.of[i]
    BY <1>2, <1>3
  <2> HIDE DEF g
  <2> QED
    BY <2>1, BoundsAssumption DEF Sound, Inside
<1> QED
  BY <1>2, <1>4, <1>5 DEF Sound, Exact

LEMMA ClosedSound ==
    ASSUME NEW f, Sound(f), NEW h \in f.allocated
    PROVE  Sound(Closed(f, h))
<1> DEFINE g == Closed(f, h)
           k == f.of[h].res_ptr
           mode == f.of[h].filemode
<1>1. f \in Files /\ h \in Handle
  BY FilesParts DEF Sound
<1>2. /\ g \in Files /\ g.of = f.of
      /\ g.readers = [f.readers EXCEPT ![k] = @ - Counted(mode, "FM_READ")]
      /\ g.writers = [f.writers EXCEPT ![k] = @ - Counted(mode, "FM_WRITE")]
  BY <1>1, ClosedParts
<1>3. f.readers \in [Kfile -> Int] /\ f.writers \in [Kfile -> Int]
  BY <1>1, FilesParts
<1>4. ASSUME NEW j \in Kfile
      PROVE  /\ g.readers[j] = Cardinality(With(g, j, "FM_READ"))
             /\ g.writers[j] = Cardinality(With(g, j, "FM_WRITE"))
             /\ driver[j] = "VGA_CONTROL" => g.writers[j] <= 1
  <2>1. /\ Cardinality(With(g, j, "FM_READ")) = Cardinality(With(f, j, "FM_READ"))
                - IF j = k THEN Counted(mode, "FM_READ") ELSE 0
        /\ Cardinality(With(g, j, "FM_WRITE")) = Cardinality(With(f, j, "FM_WRITE"))
                - IF j = k THEN Counted(mode, "FM_WRITE") ELSE 0
    BY <1>1, OneLess
  <2>2. /\ f.readers[j] = Cardinality(With(f, j, "FM_READ"))
        /\ f.writers[j] = Cardinality(With(f, j, "FM_WRITE"))
        /\ driver[j] = "VGA_CONTROL" => f.writers[j] <= 1
    BY DEF Sound, Exact
  <2>3. /\ g.readers[j] = f.readers[j] - IF j = k THEN Counted(mode, "FM_READ") ELSE 0
        /\ g.writers[j] = f.writers[j] - IF j = k THEN Counted(mode, "FM_WRITE") ELSE 0
        /\ f.readers[j] \in Int /\ f.writers[j] \in Int
    BY <1>2, <1>3
  <2> HIDE DEF g, k, mode
  <2> QED
    BY <2>1, <2>2, <2>3 DEF Counted
<1>5. Inside(g)
  BY <1>2 DEF Sound, Inside
<1> QED
  BY <1>2, <1>4, <1>5 DEF Sound, Exact

LEMMA MovedSound ==
    ASSUME NEW f, Sound(f), NEW h \in Handle, NEW n \in Nat,
           driver[f.of[h].res_ptr] = "RAMFILE" => n <= FileSize
    PROVE  Sound(MovedTo(f, h, n))
<1> DEFINE g == MovedTo(f, h, n)
<1> f \in Files
  BY DEF Sound
<1>1. /\ g \in Files /\ g.allocated = f.allocated
      /\ g.readers = f.readers /\ g.writers = f.writers
      /\ \A i \in Handle : /\ g.of[i].res_ptr = f.of[i].res_ptr
                          /\ g.of[i].filemode = f.of[i].filemode
                          /\ g.of[i].position = IF i = h THEN n ELSE f.of[i].position
  BY MovedParts
<1> HIDE DEF g
<1>2. \A k \in Kfile, m \in {"FM_READ", "FM_WRITE"} : With(g, k, m) = With(f, k, m)
  BY <1>1, FilesParts DEF With, Sound
<1>3. Exact(g)
  BY <1>1, <1>2 DEF Sound, Exact
<1>4. Inside(g)
  BY <1>1 DEF Sound, Inside
<1> QED
  BY <1>1, <1>3, <1>4 DEF Sound, g

-----------------------------------------------------------------------------
(***************************************************************************)
(* vfs_open: no handle, and the files as they were; or a handle nobody has. *)
(***************************************************************************)
TreeTypes ==
    /\ created \in Kfile /\ created >= 2
    /\ driver = [k \in Kfile |-> IF k = 1 THEN "VGA_CONTROL"
                                 ELSE IF k = 2 THEN "RAMFILE" ELSE "FIFO"]
    /\ node \in [Paths -> 1 .. created \cup {NULL}]

(* f has become g, and every handle that was open is still what it was.     *)
Extends(g, f) ==
    /\ Sound(g) /\ f.allocated \subseteq g.allocated
    /\ \A i \in f.allocated : g.of[i].filemode = f.of[i].filemode

Fresh(r, f, mode) ==
    /\ r.handle \in r.files.allocated \ f.allocated
    /\ r.handle \in Handle
    /\ r.files.of[r.handle].filemode = mode

LEMMA OpenFresh ==
    ASSUME NEW f, Sound(f), NEW k \in Kfile, NEW mode \in FileMode,
           NEW h \in Handle \ f.allocated, Opens(f, k, mode)
    PROVE  /\ Extends(Opened(f, k, mode, h), f)
           /\ Fresh([handle |-> h, files |-> Opened(f, k, mode, h)], f, mode)
           /\ Opened(f, k, mode, h).allocated = f.allocated \cup {h}
           /\ Opened(f, k, mode, h).of[h].res_ptr = k
<1> DEFINE g == Opened(f, k, mode, h)
<1>1. f.allocated \subseteq Handle \ {h} /\ f.of \in [Handle -> res_handle]
  BY FilesParts DEF Sound
<1>2. /\ g.allocated = f.allocated \cup {h}
      /\ g.of[h] = [res_ptr |-> k, filemode |-> mode, position |-> 0]
      /\ \A i \in f.allocated : g.of[i] = f.of[i]
  BY <1>1 DEF Opened
<1>3. Sound(g)
  BY OpenedSound
<1> HIDE DEF g
<1> QED
  BY <1>2, <1>3 DEF Extends, Fresh, g

LEMMA OpenCases ==
    ASSUME NEW f, Sound(f), TreeTypes, NEW path \in Paths, NEW mode \in FileMode,
           NEW r \in vfs_open(f, path, mode)
    PROVE  /\ Extends(r.files, f)
           /\ (r.handle = NULL /\ r.files = f) \/ Fresh(r, f, mode)
           /\ r.handle # NULL =>
                /\ r.files.allocated = f.allocated \cup {r.handle}
                /\ r.files.of[r.handle].res_ptr \in Kfile
                /\ Opens(f, r.files.of[r.handle].res_ptr, mode)
<1>1. CASE node[path] # NULL /\ Opens(f, node[path], mode)
  <2>1. PICK h \in Handle \ f.allocated :
             r = [handle |-> h, files |-> Opened(f, node[path], mode, h)]
    BY <1>1 DEF vfs_open
  <2>2. node[path] \in Kfile
    BY <1>1, BoundsAssumption DEF TreeTypes, Kfile
  <2>3. h # NULL
    BY HandleAssumption
  <2> QED
    BY <1>1, <2>1, <2>2, <2>3, OpenFresh
<1>2. CASE ~(node[path] # NULL /\ Opens(f, node[path], mode))
  BY <1>2 DEF vfs_open, Extends
<1> QED
  BY <1>1, <1>2

-----------------------------------------------------------------------------
(***************************************************************************)
(* The list of a task's handles.                                            *)
(***************************************************************************)
Elements(l) == {l[n] : n \in DOMAIN l}

Unique(l) == \A m, n \in DOMAIN l : l[m] = l[n] => m = n

LEMMA PutInFront ==
    ASSUME NEW S, NEW l \in Seq(S), Unique(l), NEW h \in S, h \notin Elements(l)
    PROVE  /\ <<h>> \o l \in Seq(S) /\ Unique(<<h>> \o l)
           /\ Elements(<<h>> \o l) = Elements(l) \cup {h}
<1> DEFINE w == <<h>> \o l
<1>1. /\ w \in Seq(S) /\ Len(l) \in Nat /\ DOMAIN w = 1 .. Len(l) + 1 /\ DOMAIN l = 1 .. Len(l)
      /\ w[1] = h /\ \A n \in 2 .. Len(l) + 1 : w[n] = l[n - 1]
  OBVIOUS
<1> HIDE DEF w
<1>2. \A n \in 1 .. Len(l) : w[n + 1] = l[n] /\ n + 1 \in DOMAIN w
  BY <1>1
<1>3. \A n \in DOMAIN w : n = 1 \/ (n \in 2 .. Len(l) + 1 /\ n - 1 \in DOMAIN l)
  BY <1>1
<1>4. \A n \in DOMAIN l : l[n] # h
  BY DEF Elements
<1>5. Unique(w)
  BY <1>1, <1>3, <1>4 DEF Unique
<1>6. Elements(w) = Elements(l) \cup {h}
  <2>1. Elements(w) \subseteq Elements(l) \cup {h}
    BY <1>1, <1>3 DEF Elements
  <2>2. Elements(l) \cup {h} \subseteq Elements(w)
    BY <1>1, <1>2 DEF Elements
  <2> QED BY <2>1, <2>2
<1> QED
  BY <1>1, <1>5, <1>6 DEF w

LEMMA TakenOut ==
    ASSUME NEW S, NEW l \in Seq(S), Unique(l), NEW h \in Elements(l)
    PROVE  /\ Without(l, h) \in Seq(S) /\ Unique(Without(l, h))
           /\ Elements(Without(l, h)) = Elements(l) \ {h}
<1> DEFINE P(i) == l[i] = h /\ \A j \in 1 .. i - 1 : l[j] # h
           i == CHOOSE i \in DOMAIN l : P(i)
           w == Without(l, h)
<1>1. /\ i \in 1 .. Len(l) /\ l[i] = h /\ Len(l) \in Nat /\ DOMAIN l = 1 .. Len(l)
  <2>1. PICK n \in DOMAIN l : l[n] = h
    BY DEF Elements
  <2>2. \A j \in 1 .. n - 1 : l[j] # h
    BY <2>1 DEF Unique
  <2>3. \E m \in DOMAIN l : P(m)
    BY <2>1, <2>2
  <2>4. i \in DOMAIN l /\ P(i)
    BY <2>3
  <2> QED
    BY <2>4
<1>2. w = [j \in 1 .. Len(l) - 1 |-> IF j < i THEN l[j] ELSE l[j + 1]]
  BY DEF Without
<1> HIDE DEF P, i, w
<1>3. w \in Seq(S) /\ DOMAIN w = 1 .. Len(l) - 1
  BY <1>1, <1>2
<1>4. \A n \in DOMAIN w : w[n] \in Elements(l) \ {h}
  BY <1>1, <1>2, <1>3 DEF Unique, Elements
<1>5. ASSUME NEW m \in 1 .. Len(l), l[m] # h PROVE \E n \in DOMAIN w : w[n] = l[m]
  <2>1. CASE m < i
    BY <1>1, <1>2, <1>3, <2>1
  <2>2. CASE m > i
    <3>1. m - 1 \in DOMAIN w /\ w[m - 1] = l[m]
      BY <1>1, <1>2, <1>3, <2>2
    <3> QED BY <3>1
  <2> QED BY <1>1, <1>5, <2>1, <2>2
<1>6. Elements(w) = Elements(l) \ {h}
  BY <1>1, <1>3, <1>4, <1>5 DEF Elements
<1>7. Unique(w)
  <2> DEFINE from(x) == IF x < i THEN x ELSE x + 1
  <2>1. \A x \in DOMAIN w : from(x) \in DOMAIN l /\ w[x] = l[from(x)]
    BY <1>1, <1>2, <1>3
  <2>2. ASSUME NEW m \in DOMAIN w, NEW n \in DOMAIN w, w[m] = w[n] PROVE m = n
    <3>1. from(m) = from(n)
      <4> HIDE DEF from
      <4> QED
        BY <2>1, <2>2 DEF Unique
    <3> QED
      BY <1>1, <1>3, <3>1
  <2> QED
    BY <2>2 DEF Unique
<1> QED
  BY <1>3, <1>6, <1>7 DEF w

-----------------------------------------------------------------------------
(***************************************************************************)
(* Who holds what.  Tasks that are not there hold nothing.                  *)
(***************************************************************************)
TaskTypes ==
    /\ live \subseteq Pid /\ nextPID \in Nat /\ \A t \in live : t < nextPID
    /\ child_of \in [Pid -> Pid \cup {NULL}]
    /\ handle_list \in [Pid -> Seq(Handle)]
    /\ std \in [Pid -> [Streams -> Handle \cup {NULL}]]

Gone ==
    \A t \in Pid \ live : handle_list[t] = <<>> /\ \A s \in Streams : std[t][s] = NULL

Lists ==
    \A t \in Pid : /\ Unique(handle_list[t])
                   /\ Elements(handle_list[t]) \subseteq files.allocated
                   /\ \A u \in Pid \ {t} :
                        \A e \in Elements(handle_list[u]) : e \notin Elements(handle_list[t])
                   /\ \A u \in Pid, s \in Streams : std[u][s] \notin Elements(handle_list[t])

StreamsOpen ==
    \A t \in Pid, s \in Streams : std[t][s] # NULL =>
        /\ std[t][s] \in files.allocated
        /\ Redirected \subseteq {"stdin"} => StreamMode(s) \subseteq files.of[std[t][s]].filemode

HInv == TaskTypes /\ TreeTypes /\ Sound(files) /\ Gone /\ Lists /\ StreamsOpen

LEMMA SoundAfter ==
    ASSUME Sound(files'), UNCHANGED driver
    PROVE  Sound(files)'
BY DEF Sound, Exact, Inside

LEMMA Grows ==
    ASSUME HInv, Extends(files', files), UNCHANGED <<handle_list, std>>
    PROVE  Lists' /\ StreamsOpen'
<1>1. Lists'
  BY DEF HInv, Extends, Lists
<1>2. StreamsOpen'
  BY DEF HInv, Extends, StreamsOpen
<1> QED
  BY <1>1, <1>2

LEMMA Registering ==
    ASSUME HInv, NEW t \in live, NEW h \in Handle, h \in files'.allocated \ files.allocated,
           Extends(files', files), register_handle(t, h), UNCHANGED <<tasks, std>>
    PROVE  TaskTypes' /\ Gone' /\ Lists' /\ StreamsOpen'
<1> DEFINE l == handle_list[t]
<1>1. t \in Pid /\ l \in Seq(Handle) /\ Unique(l) /\ h \notin Elements(l)
  BY DEF HInv, TaskTypes, Lists
<1>2. handle_list' = [handle_list EXCEPT ![t] = <<h>> \o l]
  BY DEF register_handle
<1>3. /\ <<h>> \o l \in Seq(Handle) /\ Unique(<<h>> \o l)
      /\ Elements(<<h>> \o l) = Elements(l) \cup {h}
  BY <1>1, PutInFront
<1>4. /\ handle_list'[t] = <<h>> \o l /\ handle_list' \in [Pid -> Seq(Handle)]
      /\ \A u \in Pid \ {t} : handle_list'[u] = handle_list[u]
  BY <1>1, <1>2, <1>3 DEF HInv, TaskTypes
<1>5. /\ Unique(handle_list'[t])
      /\ Elements(handle_list'[t]) = Elements(handle_list[t]) \cup {h}
  BY <1>3, <1>4
<1> HIDE DEF l
<1>6. TaskTypes' /\ Gone'
  BY <1>1, <1>4 DEF HInv, TaskTypes, Gone, tasks
<1>7. h # NULL /\ \A u \in Pid : h \notin Elements(handle_list[u])
  BY HandleAssumption DEF HInv, Lists
<1>8. \A u \in Pid, s \in Streams : std[u][s] # h
  BY <1>7 DEF HInv, StreamsOpen
<1>9. Lists'
  <2> SUFFICES ASSUME NEW u \in Pid
               PROVE  /\ Unique(handle_list'[u])
                      /\ Elements(handle_list'[u]) \subseteq files'.allocated
                      /\ \A v \in Pid \ {u} :
                           \A e \in Elements(handle_list'[v]) : e \notin Elements(handle_list'[u])
                      /\ \A v \in Pid, s \in Streams : std'[v][s] \notin Elements(handle_list'[u])
    BY DEF Lists
  <2>1. \A v \in Pid : Elements(handle_list'[v]) =
                         IF v = t THEN Elements(handle_list[v]) \cup {h}
                                  ELSE Elements(handle_list[v])
    BY <1>4, <1>5
  <2>2. Unique(handle_list'[u])
    BY <1>4, <1>5 DEF HInv, Lists
  <2>3. Elements(handle_list'[u]) \subseteq files'.allocated
    BY <2>1 DEF HInv, Lists, Extends
  <2>4. \A v \in Pid \ {u} : \A e \in Elements(handle_list'[v]) : e \notin Elements(handle_list'[u])
    BY <1>7, <2>1 DEF HInv, Lists
  <2>5. \A v \in Pid, s \in Streams : std'[v][s] \notin Elements(handle_list'[u])
    BY <1>8, <2>1 DEF HInv, Lists
  <2> QED
    BY <2>2, <2>3, <2>4, <2>5
<1>10. StreamsOpen'
  BY DEF HInv, Extends, StreamsOpen
<1> QED
  BY <1>6, <1>9, <1>10

(* The handle a task closes is its own, so nobody's stream.                 *)
LEMMA Unregistering ==
    ASSUME HInv, NEW t \in live, NEW h, fclose_registered(t, h)
    PROVE  HInv'
<1> DEFINE l == handle_list[t]
<1>1. t \in Pid /\ l \in Seq(Handle) /\ Unique(l) /\ h \in Elements(l)
  BY DEF HInv, TaskTypes, Lists, fclose_registered, Registered, Elements
<1>2. /\ handle_list' = [handle_list EXCEPT ![t] = Without(l, h)]
      /\ files' = Closed(files, h) /\ UNCHANGED <<tasks, std, tree>>
  BY DEF fclose_registered, unregister_handle
<1>3. /\ Without(l, h) \in Seq(Handle) /\ Unique(Without(l, h))
      /\ Elements(Without(l, h)) = Elements(l) \ {h}
  BY <1>1, TakenOut
<1>4. /\ handle_list'[t] = Without(l, h) /\ handle_list' \in [Pid -> Seq(Handle)]
      /\ \A u \in Pid \ {t} : handle_list'[u] = handle_list[u]
  BY <1>1, <1>2, <1>3 DEF HInv, TaskTypes
<1>5. /\ Unique(handle_list'[t])
      /\ Elements(handle_list'[t]) = Elements(handle_list[t]) \ {h}
  BY <1>3, <1>4
<1> HIDE DEF l
<1>6. h \in files.allocated /\ h \in Handle
  <2>1. h \in files.allocated
    BY <1>1 DEF HInv, Lists, l
  <2> QED
    BY <2>1, FilesParts DEF HInv, Sound
<1>7. Sound(files') /\ files'.allocated = files.allocated \ {h} /\ files'.of = files.of
  BY <1>2, <1>6, ClosedSound DEF HInv, Closed
<1>8. TaskTypes' /\ Gone' /\ TreeTypes'
  BY <1>1, <1>2, <1>4 DEF HInv, TaskTypes, Gone, TreeTypes, tasks, tree
<1>9. /\ \A u \in Pid \ {t} : h \notin Elements(handle_list[u])
      /\ \A u \in Pid, s \in Streams : std[u][s] # h
  BY <1>1 DEF HInv, Lists, l
<1>10. Lists'
  BY <1>1, <1>2, <1>4, <1>5, <1>7, <1>9 DEF HInv, Lists
<1>11. StreamsOpen'
  BY <1>2, <1>7, <1>9 DEF HInv, StreamsOpen
<1> QED
  BY <1>2, <1>7, <1>8, <1>10, <1>11, SoundAfter DEF HInv, tree

(* A task that ends takes its list and its streams with it.                 *)
LEMMA Ending ==
    ASSUME HInv, NEW t \in live, Ended(t, std), UNCHANGED <<tree, files>>
    PROVE  HInv'
<1>1. t \in Pid /\ live' = live \ {t} /\ nextPID' = nextPID
  BY DEF HInv, TaskTypes, Ended
<1>2. /\ handle_list' = [handle_list EXCEPT ![t] = <<>>]
      /\ child_of' = [child_of EXCEPT ![t] = NULL]
      /\ std' = [std EXCEPT ![t] = [s \in Streams |-> NULL]]
  BY DEF Ended
<1>3. /\ TaskTypes'
      /\ handle_list'[t] = <<>> /\ \A u \in Pid \ {t} : handle_list'[u] = handle_list[u]
      /\ \A s \in Streams : std'[t][s] = NULL
      /\ \A u \in Pid \ {t}, s \in Streams : std'[u][s] = std[u][s]
  BY <1>1, <1>2 DEF HInv, TaskTypes
<1>4. Elements(<<>>) = {} /\ Unique(<<>>)
  BY DEF Elements, Unique
<1>5. Gone'
  BY <1>1, <1>3 DEF HInv, Gone
<1>6. \A u \in Pid : /\ Unique(handle_list'[u])
                     /\ Elements(handle_list'[u]) \subseteq Elements(handle_list[u])
  BY <1>3, <1>4 DEF HInv, Lists
<1>7. NULL \notin Handle /\ \A u \in Pid : Elements(handle_list[u]) \subseteq Handle
  BY HandleAssumption, FilesParts DEF HInv, Sound, Lists
<1>8. Lists'
  <2>1. \A u \in Pid, v \in Pid, s \in Streams : std'[v][s] \notin Elements(handle_list'[u])
    BY <1>3, <1>6, <1>7 DEF HInv, Lists
  <2>2. \A u \in Pid : /\ Elements(handle_list'[u]) \subseteq files.allocated
                       /\ \A v \in Pid \ {u} :
                            \A e \in Elements(handle_list'[v]) : e \notin Elements(handle_list'[u])
    BY <1>6 DEF HInv, Lists
  <2> QED
    BY <1>6, <2>1, <2>2 DEF Lists
<1>9. StreamsOpen'
  BY <1>1, <1>3 DEF HInv, StreamsOpen
<1>10. TreeTypes' /\ Sound(files)'
  BY DEF HInv, TreeTypes, tree, Sound, Exact, Inside
<1> QED
  BY <1>3, <1>5, <1>8, <1>9, <1>10 DEF HInv

-----------------------------------------------------------------------------
LEMMA HInitHolds == Init => HInv
<1> SUFFICES ASSUME Init PROVE HInv
  OBVIOUS
<1> USE BoundsAssumption, PathsAssumption
<1>1. TaskTypes
  BY DEF Init, TaskTypes, Pid
<1>2. TreeTypes
  BY DEF Init, TreeTypes, Kfile
<1>3. files \in Files
  BY DEF Init, Files, res_handle, Kfile, FileMode
<1>4. \A k \in Kfile, m \in {"FM_READ", "FM_WRITE"} : With(files, k, m) = {}
  BY DEF Init, With
<1>5. Exact(files)
  <2>1. Cardinality({}) = 0
    BY FS_EmptySet
  <2>2. \A k \in Kfile : files.readers[k] = 0 /\ files.writers[k] = 0
    BY DEF Init
  <2> QED
    BY <1>4, <2>1, <2>2 DEF Exact
<1>6. Inside(files)
  BY DEF Inside, Init
<1>7. Gone /\ StreamsOpen
  BY DEF Init, Gone, StreamsOpen
<1>8. Lists
  <2>1. \A t \in Pid : handle_list[t] = <<>>
    BY DEF Init
  <2>2. Elements(<<>>) = {} /\ Unique(<<>>)
    BY DEF Elements, Unique
  <2> QED
    BY <2>1, <2>2 DEF Lists
<1> QED
  BY <1>1, <1>2, <1>3, <1>5, <1>6, <1>7, <1>8 DEF HInv, Sound

LEMMA OpenStep ==
    ASSUME HInv, NEW t \in live, NEW path \in Paths, NEW mode \in Modes, fopen(t, path, mode)
    PROVE  HInv'
<1>1. mode \in FileMode
  BY ModesAssumption DEF FileMode
<1>2. PICK r \in vfs_open(files, path, mode) :
          /\ files' = r.files
          /\ IF r.handle # NULL THEN register_handle(t, r.handle) ELSE UNCHANGED handle_list
          /\ UNCHANGED <<tasks, std, tree>>
  BY DEF fopen
<1>3. /\ Extends(files', files)
      /\ (r.handle = NULL /\ r.files = files) \/ Fresh(r, files, mode)
  BY <1>1, <1>2, OpenCases DEF HInv
<1>4. TreeTypes' /\ Sound(files)'
  BY <1>2, <1>3, SoundAfter DEF HInv, TreeTypes, tree, Extends
<1>5. CASE r.handle = NULL
  BY <1>2, <1>3, <1>4, <1>5, Grows DEF HInv, TaskTypes, Gone, tasks
<1>6. CASE r.handle # NULL
  <2>1. r.handle \in Handle /\ r.handle \in files'.allocated \ files.allocated
    BY <1>2, <1>3, <1>6 DEF Fresh
  <2> QED
    BY <1>2, <1>3, <1>4, <1>6, <2>1, Registering DEF HInv
<1> QED
  BY <1>5, <1>6

LEMMA FifoStep ==
    ASSUME HInv, NEW t \in live, NEW path \in Fifos, NEW ask \in BOOLEAN, fmkfifo(t, path, ask)
    PROVE  HInv'
<1>1. /\ created < MaxFiles /\ created' = created + 1 /\ driver' = driver
      /\ node' = [node EXCEPT ![path] = created + 1] /\ UNCHANGED <<tasks, std>>
  BY DEF fmkfifo, vfs_create_kfile
<1>2. path \in Paths /\ created + 1 \in Kfile /\ driver[created + 1] = "FIFO"
  BY <1>1, BoundsAssumption, PathsAssumption DEF HInv, TreeTypes, Kfile
<1>3. TreeTypes'
  <2>1. 1 .. created \subseteq 1 .. created'
    BY <1>1 DEF HInv, TreeTypes, Kfile
  <2>2. created + 1 \in 1 .. created' /\ created' >= 2
    BY <1>1 DEF HInv, TreeTypes, Kfile
  <2> QED
    BY <1>1, <1>2, <2>1, <2>2 DEF HInv, TreeTypes
<1>4. CASE ask
  <2> DEFINE mode == {"FM_READ", "FM_WRITE"}
  <2>1. PICK h \in Handle \ files.allocated :
             files' = Opened(files, created + 1, mode, h) /\ register_handle(t, h)
    BY <1>4 DEF fmkfifo
  <2>2. mode \in FileMode /\ Opens(files, created + 1, mode)
    BY <1>2 DEF FileMode, Opens
  <2> HIDE DEF mode
  <2>3. Extends(files', files) /\ files'.allocated = files.allocated \cup {h}
    <3>1. Sound(files)
      BY DEF HInv
    <3>2. Extends(Opened(files, created + 1, mode, h), files)
      BY <1>2, <2>2, <3>1, OpenFresh
    <3> QED
      BY <2>1, <3>2 DEF Opened
  <2>4. h \in Handle /\ h \in files'.allocated \ files.allocated
    BY <2>3
  <2>5. TaskTypes' /\ Gone' /\ Lists' /\ StreamsOpen'
    BY <1>1, <2>1, <2>3, <2>4, Registering
  <2> QED
    BY <1>1, <1>3, <2>3, <2>5, SoundAfter DEF HInv, Extends
<1>5. CASE ~ask
  <2>1. UNCHANGED <<files, handle_list>>
    BY <1>5 DEF fmkfifo
  <2>2. Extends(files', files)
    BY <2>1 DEF HInv, Extends
  <2> QED
    BY <1>1, <1>3, <2>1, <2>2, Grows, SoundAfter DEF HInv, Extends, TaskTypes, Gone, tasks
<1> QED
  BY <1>4, <1>5

LEMMA ResolvedHandle ==
    ASSUME HInv, NEW t \in live, NEW hdl \in Registered(t) \cup Streams,
           resolveHandle(t, hdl) # NULL
    PROVE  resolveHandle(t, hdl) \in Handle
<1>1. t \in Pid /\ std[t] \in [Streams -> Handle \cup {NULL}]
  BY DEF HInv, TaskTypes
<1>2. Registered(t) \subseteq Handle
  BY <1>1, FilesParts DEF HInv, Sound, Lists, Registered, Elements
<1> QED
  BY <1>1, <1>2 DEF resolveHandle, getpmhandle

LEMMA TransferStep ==
    ASSUME HInv, NEW t \in live, NEW hdl \in Registered(t) \cup Streams,
           NEW m \in {"FM_READ", "FM_WRITE"}, NEW length \in 1 .. FileSize,
           transfer(t, hdl, m, length)
    PROVE  HInv'
<1> DEFINE h == resolveHandle(t, hdl)
           n == files.of[h].position + length
<1>1. /\ h # NULL /\ ~AtEnd(h, length) /\ files' = MovedTo(files, h, n)
      /\ UNCHANGED <<tasks, handle_list, std, tree>>
  BY DEF transfer
<1>2. h \in Handle /\ files \in Files
  BY <1>1, ResolvedHandle DEF HInv, Sound
<1>3. n \in Nat /\ n <= FileSize
  <2>1. files.of[h].position \in Nat
    BY <1>2, FilesParts DEF res_handle
  <2> QED
    BY <1>1, <2>1, BoundsAssumption DEF AtEnd
<1> HIDE DEF h, n
<1>4. Sound(files')
  BY <1>1, <1>2, <1>3, MovedSound DEF HInv
<1>5. Extends(files', files)
  <2>1. /\ MovedTo(files, h, n).allocated = files.allocated
        /\ \A i \in Handle : MovedTo(files, h, n).of[i].filemode = files.of[i].filemode
    BY <1>2, <1>3, MovedParts
  <2>2. files.allocated \subseteq Handle
    BY <1>2, FilesParts
  <2> QED
    BY <1>1, <1>4, <2>1, <2>2 DEF Extends
<1> QED
  BY <1>1, <1>4, <1>5, Grows, SoundAfter DEF HInv, TaskTypes, TreeTypes, Gone, tasks, tree

(* A stream is replaced: the handle it held is nobody else's and is closed. *)
LEMMA StreamStep ==
    ASSUME HInv, NEW t \in live, NEW s \in Streams, NEW path \in Paths,
           NEW pid \in {0} \cup Pid, fopenpmhandle(t, s, path, pid), ReplacesOwn
    PROVE  HInv'
<1> DEFINE tsk == IF pid = 0 THEN t ELSE pid
           mode == StreamMode(s)
<1>1. mode \in FileMode
  BY DEF StreamMode, FileMode
<1>2. PICK r \in vfs_open(files, path, mode) :
          /\ IF r.handle = NULL \/ tsk \notin live
             THEN files' = r.files /\ UNCHANGED std
             ELSE /\ std' = [std EXCEPT ![tsk][s] = r.handle]
                  /\ files' = Replaced(r.files, tsk, s)
          /\ UNCHANGED <<tasks, handle_list, tree>>
  BY DEF fopenpmhandle
<1> HIDE DEF mode
<1>3. /\ Extends(r.files, files)
      /\ (r.handle = NULL /\ r.files = files) \/ Fresh(r, files, mode)
  BY <1>1, <1>2, OpenCases DEF HInv
<1>4. TreeTypes'
  BY <1>2 DEF HInv, TreeTypes, tree
<1>5. CASE r.handle = NULL \/ tsk \notin live
  <2>1. files' = r.files /\ UNCHANGED std
    BY <1>2, <1>5
  <2> QED
    BY <1>2, <1>3, <1>4, <2>1, Grows, SoundAfter DEF HInv, TaskTypes, Gone, tasks, tree, Extends
<1>6. CASE r.handle # NULL /\ tsk \in live
  <2> DEFINE old == std[tsk][s]
  <2>1. /\ std' = [std EXCEPT ![tsk][s] = r.handle]
        /\ files' = Replaced(r.files, tsk, s) /\ UNCHANGED <<tasks, handle_list, tree>>
    BY <1>2, <1>6
  <2>2. tsk \in Pid /\ std \in [Pid -> [Streams -> Handle \cup {NULL}]]
    BY <1>6 DEF HInv, TaskTypes
  <2>3. /\ Fresh(r, files, mode) /\ Sound(r.files) /\ files.allocated \subseteq r.files.allocated
        /\ \A i \in files.allocated : r.files.of[i].filemode = files.of[i].filemode
    BY <1>3, <1>6 DEF Extends
  <2>4. /\ r.handle \in Handle /\ r.handle \in r.files.allocated /\ r.handle \notin files.allocated
        /\ r.files.of[r.handle].filemode = mode
    BY <2>3 DEF Fresh
  <2>5. /\ std' \in [Pid -> [Streams -> Handle \cup {NULL}]]
        /\ std'[tsk][s] = r.handle
        /\ \A u \in Pid, x \in Streams : <<u, x>> # <<tsk, s>> => std'[u][x] = std[u][x]
    BY <2>1, <2>2, <2>4
  <2>6. ASSUME old # NULL
        PROVE  /\ old \in files.allocated
               /\ \A u \in Pid, x \in Streams : <<u, x>> # <<tsk, s>> => std[u][x] # old
    <3>1. old \in files.allocated
      BY <2>2, <2>6 DEF HInv, StreamsOpen
    <3>2. ASSUME NEW u \in Pid, NEW x \in Streams, <<u, x>> # <<tsk, s>> PROVE std[u][x] # old
      <4>1. CASE u \in live
        <5>1. tsk \in live \cap live' /\ std'[tsk][s] # std[tsk][s]
          BY <1>6, <2>1, <2>4, <2>5, <3>1 DEF tasks
        <5>2. ~Shared(tsk, s)
          BY <5>1 DEF ReplacesOwn
        <5> QED
          BY <2>6, <3>2, <4>1, <5>2 DEF Shared
      <4>2. CASE u \notin live
        BY <2>6, <4>2 DEF HInv, Gone
      <4> QED
        BY <4>1, <4>2
    <3> QED
      BY <3>1, <3>2
  <2>7. /\ Sound(files') /\ files'.of = r.files.of
        /\ files'.allocated = r.files.allocated \ (IF old = NULL THEN {} ELSE {old})
    <3>1. CASE old = NULL
      BY <2>1, <2>3, <3>1 DEF Replaced
    <3>2. CASE old # NULL
      <4>1. files' = Closed(r.files, old) /\ old \in r.files.allocated
        BY <2>1, <2>3, <2>6, <3>2 DEF Replaced
      <4> QED
        BY <2>3, <3>2, <4>1, ClosedSound DEF Closed
    <3> QED
      BY <3>1, <3>2
  <2> HIDE DEF old, tsk
  <2>8. r.handle \in files'.allocated
    BY <2>4, <2>6, <2>7
  <2>9. TaskTypes' /\ Gone'
    <3>1. TaskTypes'
      BY <2>1, <2>5 DEF HInv, TaskTypes, tasks
    <3>2. tsk \in live
      BY <1>6
    <3> QED
      BY <2>1, <2>5, <3>1, <3>2 DEF HInv, Gone, tasks
  <2>10. Lists'
    <3>1. \A u \in Pid : r.handle \notin Elements(handle_list[u])
      BY <2>4 DEF HInv, Lists
    <3>2. \A u \in Pid : Elements(handle_list[u]) \subseteq files'.allocated
      <4>1. \A u \in Pid : old \notin Elements(handle_list[u])
        BY <2>2 DEF HInv, Lists, old, tsk
      <4> QED
        BY <2>3, <2>7, <4>1 DEF HInv, Lists
    <3>3. \A u, v \in Pid, x \in Streams : std'[v][x] \notin Elements(handle_list[u])
      BY <2>5, <3>1 DEF HInv, Lists
    <3> QED
      BY <2>1, <3>2, <3>3 DEF HInv, Lists
  <2>11. StreamsOpen'
    <3>1. ASSUME NEW u \in Pid, NEW x \in Streams, std'[u][x] # NULL
          PROVE  /\ std'[u][x] \in files'.allocated
                 /\ Redirected \subseteq {"stdin"} =>
                       StreamMode(x) \subseteq files'.of[std'[u][x]].filemode
      <4>1. CASE <<u, x>> = <<tsk, s>>
        BY <2>4, <2>5, <2>7, <2>8, <4>1 DEF mode
      <4>2. CASE <<u, x>> # <<tsk, s>>
        <5>1. std'[u][x] = std[u][x] /\ std[u][x] # NULL /\ std[u][x] # old
          BY <2>5, <2>6, <3>1, <4>2
        <5>2. /\ std[u][x] \in files.allocated
              /\ Redirected \subseteq {"stdin"} => StreamMode(x) \subseteq files.of[std[u][x]].filemode
          BY <5>1 DEF HInv, StreamsOpen
        <5> QED
          BY <2>3, <2>7, <5>1, <5>2
      <4> QED
        BY <4>1, <4>2
    <3> QED
      BY <3>1 DEF StreamsOpen
  <2> QED
    BY <1>4, <2>1, <2>7, <2>9, <2>10, <2>11, SoundAfter DEF HInv, tree
<1> QED
  BY <1>5, <1>6

-----------------------------------------------------------------------------
(***************************************************************************)
(* Starting a program.                                                      *)
(***************************************************************************)
LEMMA ExtendsFurther ==
    ASSUME NEW f, NEW g, NEW h, Extends(g, f), Extends(h, g)
    PROVE  Extends(h, f)
BY DEF Extends

LEMMA RedirectCases ==
    ASSUME NEW f, Sound(f), TreeTypes, NEW path \in Paths \cup {NULL},
           NEW r \in Redirect(f, path)
    PROVE  /\ Extends(r.files, f)
           /\ r.handle = NULL \/ Fresh(r, f, {"FM_READ"})
           /\ path = NULL => r.handle = NULL
<1>1. CASE path = NULL
  BY <1>1 DEF Redirect, Extends
<1>2. CASE path # NULL
  <2>1. path \in Paths /\ {"FM_READ"} \in FileMode /\ r \in vfs_open(f, path, {"FM_READ"})
    BY <1>2 DEF Redirect, FileMode
  <2> QED
    BY <1>2, <2>1, OpenCases
<1> QED
  BY <1>1, <1>2

LEMMA LoadedExtends ==
    ASSUME NEW f, Sound(f), TreeTypes, NEW path \in Paths,
           NEW r \in vfs_open(f, path, {"FM_EXEC", "FM_READ"}), r.handle # NULL
    PROVE  Extends(Loaded(r), f)
<1>1. Extends(r.files, f) /\ Fresh(r, f, {"FM_EXEC", "FM_READ"})
  <2>1. {"FM_EXEC", "FM_READ"} \in FileMode
    BY DEF FileMode
  <2> QED
    BY <2>1, OpenCases
<1>2. r.files \in Files /\ Sound(r.files) /\ r.handle \in Handle /\ FileSize \in Nat
  BY <1>1, BoundsAssumption DEF Extends, Sound, Fresh
<1>3. Sound(MovedTo(r.files, r.handle, FileSize))
  BY <1>2, MovedSound
<1>4. /\ MovedTo(r.files, r.handle, FileSize).allocated = r.files.allocated
      /\ \A i \in Handle :
           MovedTo(r.files, r.handle, FileSize).of[i].filemode = r.files.of[i].filemode
  BY <1>2, MovedParts
<1>5. f.allocated \subseteq Handle
  BY FilesParts DEF Sound
<1> QED
  BY <1>1, <1>3, <1>4, <1>5 DEF Loaded, Extends

(* The new task's streams: handles just opened, or its parent's.            *)
LEMMA Starting ==
    ASSUME HInv, NEW t \in live, NEW got \in [Streams -> Handle \cup {NULL}],
           nextPID \in Pid, StartTask(t, nextPID, got), Extends(files', files),
           \A s \in Streams : got[s] # NULL =>
               /\ got[s] \in files'.allocated \ files.allocated
               /\ Redirected \subseteq {"stdin"} =>
                     StreamMode(s) \subseteq files'.of[got[s]].filemode,
           UNCHANGED <<handle_list, tree>>
    PROVE  HInv'
<1> DEFINE p == nextPID
           new == [s \in Streams |-> Inherited(t, s, got[s])]
<1>1. /\ t \in Pid /\ p \in Pid /\ p \notin live /\ p \in Nat /\ t # p
      /\ live' = live \cup {p} /\ nextPID' = p + 1
      /\ child_of' = [child_of EXCEPT ![p] = t]
      /\ std' = [std EXCEPT ![p] = new]
  BY DEF StartTask, HInv, TaskTypes
<1>2. std \in [Pid -> [Streams -> Handle \cup {NULL}]]
  BY DEF HInv, TaskTypes
<1>3. new \in [Streams -> Handle \cup {NULL}]
  BY <1>1, <1>2 DEF Inherited
<1>4. \A s \in Streams : new[s] = IF got[s] = NULL THEN std[t][s] ELSE got[s]
  BY DEF Inherited
<1> HIDE DEF new
<1>5. /\ std' \in [Pid -> [Streams -> Handle \cup {NULL}]]
      /\ std'[p] = new /\ \A u \in Pid \ {p} : std'[u] = std[u]
  BY <1>1, <1>2, <1>3
<1>6. TaskTypes'
  BY <1>1, <1>5 DEF HInv, TaskTypes
<1>7. Gone'
  BY <1>1, <1>5 DEF HInv, Gone
<1>8. Lists'
  <2>1. \A u \in Pid, s \in Streams : got[s] # NULL => got[s] \notin Elements(handle_list[u])
    BY DEF HInv, Lists
  <2>2. \A u \in Pid, s \in Streams : std[t][s] \notin Elements(handle_list[u])
    BY <1>1 DEF HInv, Lists
  <2>3. \A u, v \in Pid, s \in Streams : std'[v][s] \notin Elements(handle_list[u])
    BY <1>4, <1>5, <2>1, <2>2 DEF HInv, Lists
  <2> QED
    BY <2>3 DEF HInv, Lists, Extends
<1>9. StreamsOpen'
  <2>1. ASSUME NEW u \in Pid, NEW s \in Streams, std'[u][s] # NULL
        PROVE  /\ std'[u][s] \in files'.allocated
               /\ Redirected \subseteq {"stdin"} =>
                     StreamMode(s) \subseteq files'.of[std'[u][s]].filemode
    <3>1. CASE u = p /\ got[s] # NULL
      BY <1>4, <1>5, <3>1
    <3>2. CASE ~(u = p /\ got[s] # NULL)
      <4>1. PICK v \in Pid : std'[u][s] = std[v][s]
        BY <1>1, <1>4, <1>5, <3>2
      <4>2. /\ std[v][s] \in files.allocated
            /\ Redirected \subseteq {"stdin"} => StreamMode(s) \subseteq files.of[std[v][s]].filemode
        BY <2>1, <4>1 DEF HInv, StreamsOpen
      <4> QED
        BY <4>1, <4>2 DEF Extends
    <3> QED
      BY <3>1, <3>2
  <2> QED
    BY <2>1 DEF StreamsOpen
<1> QED
  BY <1>6, <1>7, <1>8, <1>9, SoundAfter DEF HInv, Extends, TreeTypes, tree

LEMMA ExecStep ==
    ASSUME HInv, NEW t \in live, NEW path \in Paths, NEW to \in Redirections, vfs_exec(t, path, to)
    PROVE  HInv'
<1>1. nextPID \in Pid /\ UNCHANGED <<handle_list, tree>> /\ Sound(files) /\ TreeTypes
  BY DEF vfs_exec, HInv
<1>2. PICK r \in vfs_open(files, path, {"FM_EXEC", "FM_READ"}) :
         \/ /\ r.handle # NULL
            /\ files' = Loaded(r)
            /\ UNCHANGED <<tasks, std>>
         \/ /\ r.handle # NULL
            /\ \E i \in Redirect(Loaded(r), to["stdin"]) :
               \E o \in Redirect(i.files, to["stdout"]) :
               \E e \in Redirect(o.files, to["stderr"]) :
                  /\ files' = e.files
                  /\ StartTask(t, nextPID, [stdin |-> i.handle, stdout |-> o.handle,
                                            stderr |-> e.handle])
  BY DEF vfs_exec
<1>3. Extends(Loaded(r), files)
  BY <1>1, <1>2, LoadedExtends
<1>4. CASE files' = Loaded(r) /\ UNCHANGED <<tasks, std>>
  BY <1>1, <1>3, <1>4, Grows, SoundAfter DEF HInv, TaskTypes, TreeTypes, Gone, tasks, tree, Extends
<1>5. ASSUME NEW i \in Redirect(Loaded(r), to["stdin"]),
             NEW o \in Redirect(i.files, to["stdout"]),
             NEW e \in Redirect(o.files, to["stderr"]),
             files' = e.files,
             StartTask(t, nextPID, [stdin |-> i.handle, stdout |-> o.handle, stderr |-> e.handle])
      PROVE  HInv'
  <2> DEFINE got == [stdin |-> i.handle, stdout |-> o.handle, stderr |-> e.handle]
  <2>1. \A s \in Streams : to[s] \in Paths \cup {NULL} /\ (s \notin Redirected => to[s] = NULL)
    BY DEF Redirections
  <2>2. /\ Extends(i.files, Loaded(r)) /\ (to["stdin"] = NULL => i.handle = NULL)
        /\ i.handle = NULL \/ Fresh(i, Loaded(r), {"FM_READ"})
    BY <1>1, <1>3, <2>1, RedirectCases DEF Extends, Streams
  <2>3. /\ Extends(o.files, i.files) /\ (to["stdout"] = NULL => o.handle = NULL)
        /\ o.handle = NULL \/ Fresh(o, i.files, {"FM_READ"})
    BY <1>1, <2>1, <2>2, RedirectCases DEF Extends, Streams
  <2>4. /\ Extends(e.files, o.files) /\ (to["stderr"] = NULL => e.handle = NULL)
        /\ e.handle = NULL \/ Fresh(e, o.files, {"FM_READ"})
    BY <1>1, <2>1, <2>3, RedirectCases DEF Extends, Streams
  <2>5. /\ Extends(i.files, files) /\ Extends(o.files, files) /\ Extends(files', files)
        /\ Extends(files', i.files) /\ Extends(files', o.files)
    BY <1>3, <1>5, <2>2, <2>3, <2>4, ExtendsFurther
  <2>6. \A h \in {i.handle, o.handle, e.handle} : h # NULL =>
           /\ h \in Handle /\ h \in files'.allocated \ files.allocated
           /\ files'.of[h].filemode = {"FM_READ"}
    <3>1. ASSUME i.handle # NULL
          PROVE  /\ i.handle \in Handle /\ i.handle \in files'.allocated \ files.allocated
                 /\ files'.of[i.handle].filemode = {"FM_READ"}
      BY <1>3, <2>2, <2>5, <3>1 DEF Fresh, Extends
    <3>2. ASSUME o.handle # NULL
          PROVE  /\ o.handle \in Handle /\ o.handle \in files'.allocated \ files.allocated
                 /\ files'.of[o.handle].filemode = {"FM_READ"}
      BY <2>3, <2>5, <3>2 DEF Fresh, Extends
    <3>3. ASSUME e.handle # NULL
          PROVE  /\ e.handle \in Handle /\ e.handle \in files'.allocated \ files.allocated
                 /\ files'.of[e.handle].filemode = {"FM_READ"}
      BY <1>5, <2>4, <2>5, <3>3 DEF Fresh, Extends
    <3> QED
      BY <3>1, <3>2, <3>3
  <2>7. got \in [Streams -> Handle \cup {NULL}]
    BY <2>6 DEF Streams
  <2>8. \A s \in Streams : got[s] \in {i.handle, o.handle, e.handle}
    BY DEF Streams
  <2>9. Redirected \subseteq {"stdin"} => got["stdout"] = NULL /\ got["stderr"] = NULL
    BY <2>1, <2>3, <2>4 DEF Streams
  <2>10. StartTask(t, nextPID, got)
    BY <1>5
  <2> HIDE DEF got
  <2>11. ASSUME NEW s \in Streams, got[s] # NULL
         PROVE  /\ got[s] \in files'.allocated \ files.allocated
                /\ Redirected \subseteq {"stdin"} =>
                      StreamMode(s) \subseteq files'.of[got[s]].filemode
    BY <2>6, <2>8, <2>9, <2>11 DEF StreamMode, Streams
  <2> QED
    BY <1>1, <2>5, <2>7, <2>10, <2>11, Starting
<1> QED
  BY <1>2, <1>4, <1>5

-----------------------------------------------------------------------------
LEMMA HStep == HInv /\ [Next /\ ReplacesOwn]_vars => HInv'
<1> SUFFICES ASSUME HInv, [Next /\ ReplacesOwn]_vars PROVE HInv'
  OBVIOUS
<1>1. ASSUME NEW t \in live, Syscall(t), ReplacesOwn PROVE HInv'
  <2>1. ASSUME NEW hdl \in Registered(t) \cup Streams, fclose(t, resolveHandle(t, hdl)) PROVE HInv'
    <3>1. CASE fclose_registered(t, resolveHandle(t, hdl))
      BY <3>1, Unregistering
    <3>2. CASE fclose_unknown(t, resolveHandle(t, hdl))
      BY <3>2, Ending DEF fclose_unknown
    <3> QED
      BY <2>1, <3>1, <3>2 DEF fclose
  <2>2. CASE exit(t)
    BY <2>2, Ending DEF exit, tree
  <2> QED
    BY <1>1, <2>1, <2>2, OpenStep, FifoStep, StreamStep, ExecStep, TransferStep DEF Syscall
<1>2. CASE UNCHANGED vars
  BY <1>2 DEF vars, tasks, tree, HInv, TaskTypes, TreeTypes, Sound, Exact, Inside, Gone,
     Lists, StreamsOpen
<1> QED
  BY <1>1, <1>2 DEF Next

(* The invariant, for all programs that replace only streams of their own.  *)
THEOREM HandlesInvariant == OrderlySpec => []HInv
BY HInitHolds, HStep, PTL DEF OrderlySpec

(* Every variable has its type, and no handle of a RAM file stands behind   *)
(* the end of the file.                                                     *)
THEOREM TypeCorrect == OrderlySpec => []TypeOK
<1>1. HInv => TypeOK
  BY DEF HInv, TaskTypes, TreeTypes, Sound, Inside, TypeOK
<1> QED
  BY <1>1, HandlesInvariant, PTL

(* Through leaked handles, replaced streams and tasks that end, a driver's  *)
(* counters stay exact and the screen never has two writers.                *)
THEOREM CountersCorrect == OrderlySpec => []CountersExact
<1>1. HInv => CountersExact
  BY DEF HInv, Sound, Exact, CountersExact
<1> QED
  BY <1>1, HandlesInvariant, PTL

(* No handle can be closed twice.                                           *)
THEOREM NoDoubleClose == OrderlySpec => []ClosedOnce
<1>1. HInv => ClosedOnce
  <2> SUFFICES ASSUME HInv, NEW t \in live
               PROVE  /\ Registered(t) \subseteq files.allocated
                      /\ \A m, n \in DOMAIN handle_list[t] :
                            handle_list[t][m] = handle_list[t][n] => m = n
                      /\ \A u \in live : /\ u # t => Registered(u) \cap Registered(t) = {}
                                         /\ \A s \in Streams : std[u][s] \notin Registered(t)
    BY DEF ClosedOnce
  <2>1. live \subseteq Pid /\ t \in Pid
    BY DEF HInv, TaskTypes
  <2>2. \A u \in live : Registered(u) = Elements(handle_list[u])
    BY DEF Registered, Elements
  <2>3. ASSUME NEW u \in live, u # t PROVE Registered(u) \cap Registered(t) = {}
    <3>1. \A e \in Registered(u) : e \notin Registered(t)
      BY <2>1, <2>2, <2>3 DEF HInv, Lists
    <3> QED
      BY <3>1
  <2> QED
    BY <2>1, <2>2, <2>3 DEF HInv, Lists, Unique
<1> QED
  BY <1>1, HandlesInvariant, PTL
=============================================================================
