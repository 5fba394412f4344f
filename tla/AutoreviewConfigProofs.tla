------------------------ MODULE AutoreviewConfigProofs ------------------------
(* Theorems about AutoreviewConfig for any owners, names, edits and orders. *)
EXTENDS AutoreviewConfig, TLAPS

-----------------------------------------------------------------------------
(* Keys and repositories. *)

LEMMA RepoParts ==
  ASSUME NEW r \in Repo
  PROVE  r[1] \in Owner /\ r[2] \in Name /\ r = <<r[1], r[2]>> /\ r \in Key
  BY DEF Repo, Key

LEMMA KeyKinds ==
  ASSUME NEW k \in Key
  PROVE  \/ k \in Repo /\ k \notin Name
         \/ k \in Name /\ k \notin Repo
  BY KeyAssumption DEF Key

LEMMA ConfigParts ==
  ASSUME NEW c \in Config
  PROVE  /\ Keys(c) \subseteq Key
         /\ c.repos = [x \in Keys(c) |-> c.repos[x]]
         /\ \A x \in Keys(c) : c.repos[x] \in Mode
         /\ c.org \in {Org, NoOrg}
  BY DEF Config, Keys

LEMMA ConfigMade ==
  ASSUME NEW c \in Config, NEW K \in SUBSET Key, NEW f \in [K -> Mode]
  PROVE  /\ [c EXCEPT !.repos = f] \in Config
         /\ Keys([c EXCEPT !.repos = f]) = K
         /\ [c EXCEPT !.repos = f].repos = f
         /\ [c EXCEPT !.repos = f].org = c.org
  BY DEF Config, Keys

LEMMA ResolvedKey ==
  ASSUME NEW c \in Config, NEW k \in Key
  PROVE  ResolveKey(c, k) \in Key
  BY RepoParts DEF ResolveKey, Key

\* What adding or changing an entry does.
LEMMA SetModeEffect ==
  ASSUME NEW c \in Config, NEW k \in Key, NEW m \in Mode
  PROVE  /\ SetMode(c, k, m) \in Config
         /\ Keys(SetMode(c, k, m)) = Keys(c) \cup {ResolveKey(c, k)}
         /\ SetMode(c, k, m).org = c.org
         /\ SetMode(c, k, m).repos[ResolveKey(c, k)] = m
         /\ \A x \in Keys(c) \ {ResolveKey(c, k)} :
              SetMode(c, k, m).repos[x] = c.repos[x]
<1> DEFINE key == ResolveKey(c, k)
           K == Keys(c) \cup {key}
           f == [x \in K |-> IF x = key THEN m ELSE c.repos[x]]
<1>1. K \in SUBSET Key /\ f \in [K -> Mode]
  BY ConfigParts, ResolvedKey
<1>2. SetMode(c, k, m) = [c EXCEPT !.repos = f]
  BY DEF SetMode
<1>4. /\ f[key] = m
      /\ \A x \in Keys(c) \ {key} : f[x] = c.repos[x]
  OBVIOUS
<1> HIDE DEF f, K
<1>3. /\ SetMode(c, k, m) \in Config /\ Keys(SetMode(c, k, m)) = K
      /\ SetMode(c, k, m).repos = f /\ SetMode(c, k, m).org = c.org
  BY <1>1, <1>2, ConfigMade
<1> QED BY <1>3, <1>4 DEF K

\* What removing entries does.
LEMMA WithoutEffect ==
  ASSUME NEW c \in Config, NEW K
  PROVE  /\ Without(c, K) \in Config
         /\ Keys(Without(c, K)) = Keys(c) \ K
         /\ Without(c, K).org = c.org
         /\ \A x \in Keys(c) \ K : Without(c, K).repos[x] = c.repos[x]
<1> DEFINE L == Keys(c) \ K
           f == [x \in L |-> c.repos[x]]
<1>1. L \in SUBSET Key /\ f \in [L -> Mode]
  BY ConfigParts
<1>2. Without(c, K) = [c EXCEPT !.repos = f]
  BY DEF Without
<1>4. \A x \in Keys(c) \ K : f[x] = c.repos[x]
  OBVIOUS
<1> HIDE DEF f, L
<1>3. /\ Without(c, K) \in Config /\ Keys(Without(c, K)) = L
      /\ Without(c, K).repos = f /\ Without(c, K).org = c.org
  BY <1>1, <1>2, ConfigMade
<1> QED BY <1>3, <1>4 DEF L

LEMMA OrderParts ==
  ASSUME NEW o \in Order
  PROVE  o.key \in Key /\ (o.mode = "remove" \/ o.mode \in Mode)
  BY OrderAssumption

\* An edit of a configuration is a configuration, of the same organisation.
LEMMA ApplyType ==
  ASSUME NEW c \in Config, NEW o \in Order
  PROVE  Apply(c, o) \in Config /\ Apply(c, o).org = c.org
  BY OrderParts, SetModeEffect, WithoutEffect DEF Apply, Remove

LEMMA LoadedType ==
  ASSUME NEW f \in Config \cup {Empty}
  PROVE  Loaded(f) \in Config
<1>1. [org |-> NoOrg, repos |-> [k \in {} |-> "auto"]] \in Config
  BY DEF Config, Key
<1> QED BY <1>1 DEF Loaded

\* The repositories that are automatic once the organisation is named.
Promised(c) == {r \in Repo : Has(c, r, "auto") \/ (r[1] = Org /\ Has(c, r[2], "auto"))}

LEMMA AutoIsPromised ==
  ASSUME NEW c \in Config
  PROVE  AutoRepos(c) \subseteq Promised(c)
<1>1. \A r \in Repo : r[1] = c.org => r[1] = Org
  BY ConfigParts, RepoParts, KeyAssumption
<1> QED BY <1>1 DEF AutoRepos, Promised

\* A mixture of two texts is a configuration, and promises nothing that neither does.
LEMMA MixedEffect ==
  ASSUME NEW old, NEW new \in Config, NEW c \in Mixed(old, new)
  PROVE  /\ old \in Config /\ c \in Config
         /\ Promised(c) \subseteq Promised(old) \cup Promised(new)
<1>1. old \in Config
  BY DEF Mixed
<1>2. PICK K \in SUBSET Keys(old) :
        c = [new EXCEPT !.repos = [k \in Keys(new) \cup K |->
               IF k \in K THEN old.repos[k] ELSE new.repos[k]]]
  BY <1>1 DEF Mixed
<1> DEFINE f == [k \in Keys(new) \cup K |-> IF k \in K THEN old.repos[k] ELSE new.repos[k]]
<1>3. Keys(new) \cup K \in SUBSET Key /\ f \in [Keys(new) \cup K -> Mode]
  BY <1>1, <1>2, ConfigParts
<1>4. /\ \A k \in K : f[k] = old.repos[k] /\ k \in Keys(old)
      /\ \A k \in Keys(new) \ K : f[k] = new.repos[k]
  BY <1>2
<1> HIDE DEF f
<1>5. c \in Config /\ Keys(c) = Keys(new) \cup K /\ c.repos = f
  BY <1>2, <1>3, ConfigMade DEF f
<1>6. ASSUME NEW k, Has(c, k, "auto")
      PROVE  Has(old, k, "auto") \/ Has(new, k, "auto")
  BY <1>4, <1>5, <1>6 DEF Has
<1> QED BY <1>1, <1>5, <1>6 DEF Promised

\* An edit promises no repository but the one it is about.
LEMMA ApplyInvites ==
  ASSUME NEW c \in Config, NEW o \in Order
  PROVE  Promised(Apply(c, o)) \subseteq
           Promised(c) \cup (IF o.mode = "auto" THEN Asked(o.key) ELSE {})
<1>1. CASE o.mode = "remove"
  <2>1. PICK K : Apply(c, o) = Without(c, K)
    BY <1>1 DEF Apply, Remove
  <2> QED BY <1>1, <2>1, WithoutEffect DEF Promised, Has
<1>2. CASE o.mode # "remove"
  <2> DEFINE d == SetMode(c, o.key, o.mode)
             key == ResolveKey(c, o.key)
  <2>1. Apply(c, o) = d /\ o.key \in Key /\ o.mode \in Mode
    BY <1>2, OrderParts DEF Apply
  <2>2. /\ Keys(d) = Keys(c) \cup {key} /\ d.repos[key] = o.mode
        /\ \A x \in Keys(c) \ {key} : d.repos[x] = c.repos[x]
    BY <2>1, SetModeEffect
  <2> HIDE DEF d
  <2>3. ASSUME NEW r \in Repo, r \in Promised(d), r \notin Promised(c)
        PROVE  o.mode = "auto" /\ r \in Asked(o.key)
    <3>1. o.mode = "auto" /\ (r = key \/ (r[1] = Org /\ r[2] = key))
      BY <2>2, <2>3 DEF Promised, Has
    <3>2. CASE key = o.key
      BY <3>1, <3>2 DEF Asked
    <3>3. CASE key # o.key
      <4>1. o.key \in Repo /\ o.key[1] = c.org /\ key = o.key[2] /\ key \in Name
        BY <3>3, RepoParts DEF ResolveKey
      <4>2. r # key /\ o.key[1] = Org
        BY <4>1, ConfigParts, RepoParts, KeyAssumption
      <4> QED BY <3>1, <4>1, <4>2, RepoParts DEF Asked
    <3> QED BY <3>2, <3>3
  <2> QED BY <2>1, <2>3 DEF Promised
<1> QED BY <1>1, <1>2

-----------------------------------------------------------------------------
(* Steps of an edit. *)

LEMMA FreeIsNoEdit == Free \notin Edit
  BY DEF Free, Edit

LEMMA MovedEdit ==
  ASSUME TypeOK, NEW e \in Editor, ed[e] # Free,
         NEW p \in {"loaded", "opened", "written"},
         NEW n \in {"none", "tmp", "file", "gone"},
         ed' = [ed EXCEPT ![e].phase = p, ![e].name = n]
  PROVE  /\ ed' \in [Editor -> Edit \cup {Free}]
         /\ ed'[e] # Free
         /\ ed'[e].phase = p /\ ed'[e].name = n
         /\ ed'[e].order = ed[e].order /\ ed'[e].text = ed[e].text
         /\ \A x \in Editor \ {e} : ed'[x] = ed[x]
<1>1. ed[e] \in Edit /\ ed \in [Editor -> Edit \cup {Free}]
  BY DEF TypeOK
<1>2. /\ ed' = [ed EXCEPT ![e] = [ed[e] EXCEPT !.phase = p, !.name = n]]
      /\ [ed[e] EXCEPT !.phase = p, !.name = n] \in Edit
      /\ [ed[e] EXCEPT !.phase = p, !.name = n].phase = p
      /\ [ed[e] EXCEPT !.phase = p, !.name = n].name = n
      /\ [ed[e] EXCEPT !.phase = p, !.name = n].order = ed[e].order
      /\ [ed[e] EXCEPT !.phase = p, !.name = n].text = ed[e].text
  BY <1>1 DEF Edit
<1> QED BY <1>1, <1>2, FreeIsNoEdit

LEMMA RenamedEdit ==
  ASSUME TypeOK, NEW x \in Editor
  PROVE  /\ Renamed(x) \in Edit \cup {Free}
         /\ Renamed(x) = Free <=> ed[x] = Free
         /\ ed[x] # Free => Renamed(x).text = ed[x].text
<1>1. CASE ed[x] = Free
  BY <1>1 DEF Renamed
<1>2. CASE ed[x] # Free
  <2> DEFINE n == IF ed[x].name = "tmp" THEN "file"
                  ELSE IF ed[x].name = "file" THEN "gone" ELSE ed[x].name
  <2>1. ed[x] \in Edit
    BY <1>2 DEF TypeOK
  <2>2. Renamed(x) = [ed[x] EXCEPT !.name = n] /\ n \in {"none", "tmp", "file", "gone"}
    BY <1>2, <2>1 DEF Renamed, Edit
  <2> HIDE DEF n
  <2>3. Renamed(x) \in Edit /\ Renamed(x).text = ed[x].text
    BY <2>1, <2>2 DEF Edit
  <2> QED BY <1>2, <2>3, FreeIsNoEdit
<1> QED BY <1>1, <1>2

\* A phase other than "free" is that of an edit.
LEMMA PhaseOfEdit ==
  ASSUME TypeOK, NEW e \in Editor, ed[e].phase # "free"
  PROVE  ed[e] # Free /\ ed[e] \in Edit
  BY DEF TypeOK, Free

-----------------------------------------------------------------------------
(* Type correctness. *)

LEMMA InitType == Init => TypeOK
<1> SUFFICES ASSUME Init PROVE TypeOK
  OBVIOUS
<1>1. invited \subseteq Repo
  BY DEF Init, AutoRepos
<1> QED BY <1>1 DEF Init, TypeOK

LEMMA NextType == TypeOK /\ [Next]_vars => TypeOK'
<1> SUFFICES ASSUME TypeOK, [Next]_vars PROVE TypeOK'
  OBVIOUS
<1>1. ASSUME NEW e \in Editor, NEW o \in Order, Load(e, o) PROVE TypeOK'
  <2>1. file \in Config \cup {Empty} /\ Loaded(file) \in Config
    BY <1>1, LoadedType DEF Load, TypeOK
  <2>2. Apply(Loaded(file), o) \in Config
    BY <2>1, ApplyType
  <2> DEFINE new == [phase |-> "loaded", order |-> o,
                     text |-> Apply(Loaded(file), o), name |-> "none"]
  <2>3. new \in Edit
    BY <2>2 DEF Edit
  <2>4. ed' = [ed EXCEPT ![e] = new]
    BY <1>1 DEF Load
  <2> HIDE DEF new
  <2>5. ed' \in [Editor -> Edit \cup {Free}]
    BY <2>3, <2>4 DEF TypeOK
  <2>6. Asked(o.key) \subseteq Repo
    BY DEF Asked
  <2> QED BY <1>1, <2>5, <2>6 DEF Load, TypeOK
<1>2. ASSUME NEW e \in Editor, Open(e) PROVE TypeOK'
  BY <1>2, PhaseOfEdit, MovedEdit DEF Open, TypeOK
<1>3. ASSUME NEW e \in Editor, Write(e) PROVE TypeOK'
  <2>1. ed[e] \in Edit /\ ed[e] # Free /\ ed[e].text \in Config
    BY <1>3, PhaseOfEdit DEF Write, Edit
  <2>2. ed' \in [Editor -> Edit \cup {Free}]
    BY <1>3, <2>1, MovedEdit DEF Write
  <2>3. \A old : Over(old, ed[e].text) \subseteq Config \cup {Torn}
    BY <2>1, MixedEffect DEF Over
  <2> QED BY <1>3, <2>2, <2>3 DEF Write, TypeOK
<1>4. ASSUME NEW e \in Editor, Replace(e) PROVE TypeOK'
  <2>1. ed' \in [Editor -> Edit \cup {Free}]
    BY <1>4, RenamedEdit DEF Replace, TypeOK
  <2> QED BY <1>4, <2>1 DEF Replace, TypeOK
<1>5. ASSUME NEW e \in Editor, Kill(e) PROVE TypeOK'
  BY <1>5 DEF Kill, TypeOK
<1>6. CASE UNCHANGED vars
  BY <1>6 DEF vars, TypeOK
<1> QED BY <1>1, <1>2, <1>3, <1>4, <1>5, <1>6 DEF Next

\* Every variable keeps its type.
THEOREM TypeCorrect == Spec => []TypeOK
  BY InitType, NextType, PTL DEF Spec

-----------------------------------------------------------------------------
(* One edit at a time. *)

\* As long as no edits overlap, the file is a configuration, at most one edit is under
\* way, its text is the edited file, and the temporary file is empty while it is open
\* and holds that text once it is written.
Alone ==
  ~collided =>
    /\ file \in Config
    /\ \A x, y \in Editor : ed[x] # Free /\ ed[y] # Free => x = y
    /\ \A x \in Editor : ed[x] # Free =>
         /\ ed[x].text = Apply(file, ed[x].order)
         /\ ed[x].phase = "opened" => ed[x].name = "tmp" /\ tmp = Empty
         /\ ed[x].phase = "written" => tmp = ed[x].text

LEMMA ConfigIsLoaded == \A c \in Config : Loaded(c) = c
  BY FileAssumption DEF Loaded

LEMMA InitAlone == Init => Alone
  BY DEF Init, Alone

LEMMA NextAlone == TypeOK /\ Alone /\ [Next]_vars => Alone'
<1> SUFFICES ASSUME TypeOK, Alone, [Next]_vars, ~collided' PROVE Alone'
  BY DEF Alone
<1>1. ASSUME NEW e \in Editor, NEW o \in Order, Load(e, o) PROVE Alone'
  <2>1. ~collided /\ \A x \in Editor : ed[x] = Free
    BY <1>1 DEF Load
  <2>2. file \in Config /\ Loaded(file) = file /\ file' = file
    BY <1>1, <2>1, ConfigIsLoaded DEF Alone, Load
  <2> DEFINE new == [phase |-> "loaded", order |-> o, text |-> Apply(file, o), name |-> "none"]
  <2>3. ed' = [ed EXCEPT ![e] = new]
    BY <1>1, <2>2 DEF Load
  <2>4. new.phase = "loaded" /\ new.text = Apply(file, new.order)
    OBVIOUS
  <2> HIDE DEF new
  <2>5. ed'[e] = new /\ \A x \in Editor \ {e} : ed'[x] = Free
    BY <2>1, <2>3 DEF TypeOK
  <2> QED BY <2>2, <2>4, <2>5 DEF Alone
<1>2. ASSUME NEW e \in Editor, Open(e) PROVE Alone'
  <2>1. ed[e] # Free /\ ~collided
    BY <1>2, PhaseOfEdit DEF Open
  <2>0. \A x \in Editor \ {e} : ed[x] = Free
    BY <2>1 DEF Alone
  <2>2. \A x \in Editor \ {e} : ed'[x] = Free
    BY <1>2, <2>0 DEF Open, TypeOK
  <2>3. /\ ed'[e].phase = "opened" /\ ed'[e].name = "tmp"
        /\ ed'[e].order = ed[e].order /\ ed'[e].text = ed[e].text
    BY <1>2, <2>1, MovedEdit DEF Open
  <2>4. ed'[e].text = Apply(file, ed'[e].order) /\ file \in Config
    BY <2>1, <2>3 DEF Alone
  <2> QED BY <1>2, <2>2, <2>3, <2>4 DEF Open, Alone
<1>3. ASSUME NEW e \in Editor, Write(e) PROVE Alone'
  <2>1. ed[e] # Free /\ ~collided
    BY <1>3, PhaseOfEdit DEF Write
  <2>0. \A x \in Editor \ {e} : ed[x] = Free
    BY <2>1 DEF Alone
  <2>2. \A x \in Editor \ {e} : ed'[x] = Free
    BY <1>3, <2>0 DEF Write, TypeOK
  <2>3. /\ ed'[e].phase = "written"
        /\ ed'[e].order = ed[e].order /\ ed'[e].text = ed[e].text
    BY <1>3, <2>1, MovedEdit DEF Write
  <2>4. ed'[e].text = Apply(file, ed'[e].order) /\ file \in Config
    BY <2>1, <2>3 DEF Alone
  <2>5. ed[e].name = "tmp" /\ tmp = Empty
    BY <1>3, <2>1 DEF Write, Alone
  <2>6. tmp' = ed[e].text /\ file' = file
    BY <1>3, <2>5 DEF Write, Over
  <2> QED BY <2>2, <2>3, <2>4, <2>6 DEF Alone
<1>4. ASSUME NEW e \in Editor, Replace(e) PROVE Alone'
  <2>1. ed[e] # Free /\ ed[e] \in Edit /\ ~collided
    BY <1>4, PhaseOfEdit DEF Replace
  <2>2. tmp = ed[e].text /\ tmp \in Config
    BY <1>4, <2>1 DEF Replace, Alone, Edit
  <2>3. tmp # Missing
    BY <2>2, FileAssumption
  <2>4. \A x \in Editor : ed'[x] = Free
    BY <1>4, <2>1, <2>3, RenamedEdit DEF Replace, Alone
  <2> QED BY <1>4, <2>2, <2>3, <2>4 DEF Replace, Alone
<1>5. ASSUME NEW e \in Editor, Kill(e) PROVE Alone'
  BY <1>5 DEF Kill, Alone, TypeOK
<1>6. CASE UNCHANGED vars
  BY <1>6 DEF vars, Alone
<1> QED BY <1>1, <1>2, <1>3, <1>4, <1>5, <1>6 DEF Next

\* The file changes only when an edit replaces it, and then to its order done to it.
LEMMA FileStep ==
  ASSUME TypeOK, Alone, [Next]_vars, ~collided, file' # file
  PROVE  \E e \in Editor : ed[e] # Free /\ file' = Apply(file, ed[e].order)
<1>1. ASSUME NEW e \in Editor, Replace(e)
      PROVE  ed[e] # Free /\ file' = Apply(file, ed[e].order)
  <2>1. ed[e] # Free /\ ed[e] \in Edit
    BY <1>1, PhaseOfEdit DEF Replace
  <2>2. tmp = ed[e].text /\ ed[e].text = Apply(file, ed[e].order)
    BY <1>1, <2>1 DEF Replace, Alone
  <2>3. tmp # Missing
    BY <2>1, <2>2, FileAssumption DEF Edit
  <2> QED BY <1>1, <2>1, <2>2, <2>3 DEF Replace
<1>2. ASSUME NEW e \in Editor, Write(e) PROVE FALSE
  <2>1. ed[e] # Free /\ ed[e].phase = "opened"
    BY <1>2, PhaseOfEdit DEF Write
  <2>2. ed[e].name = "tmp"
    BY <2>1 DEF Alone
  <2> QED BY <1>2, <2>2 DEF Write
<1> QED BY <1>1, <1>2 DEF Next, Load, Open, Kill, vars

\* Edits that are killed at any point leave the old text or the new one (_write_atomic),
\* and the new one is one order done to the text that stands, as long as no two edits
\* have overlapped.
THEOREM EditsAtomic == Spec => EditsAreAtomic
<1> DEFINE Atomic == \E e \in Editor : ed[e] # Free /\ file' = Apply(file, ed[e].order)
<1>1. TypeOK /\ Alone /\ [Next]_vars => [collided \/ file' = file \/ Atomic]_vars
  BY FileStep
<1>2. Spec => [](TypeOK /\ Alone)
  BY InitType, NextType, InitAlone, NextAlone, PTL DEF Spec
<1>3. Spec => [][collided \/ file' = file \/ Atomic]_vars
  BY <1>1, <1>2, PTL DEF Spec
<1> QED BY <1>3 DEF EditsAreAtomic

-----------------------------------------------------------------------------
(* Invitations. *)

\* Every text under way, and the one in the temporary file, promises no other
\* repository than one that was automatic, or that an edit was asked to make so.
Invited ==
  /\ file # Torn => Promised(Loaded(file)) \subseteq invited
  /\ tmp \in Config => Promised(tmp) \subseteq invited
  /\ \A x \in Editor : ed[x] # Free => Promised(ed[x].text) \subseteq invited

LEMMA EmptyInvitesNone == Promised(Loaded(Empty)) = {}
  BY DEF Promised, Loaded, Has, Keys

LEMMA InitInvited == Init => Invited
<1> SUFFICES ASSUME Init PROVE Invited
  OBVIOUS
<1>1. file \in Config /\ Loaded(file) = file /\ tmp \notin Config
  BY ConfigIsLoaded, FileAssumption DEF Init
<1>2. Promised(file) = AutoRepos(file) /\ invited = AutoRepos(file)
  BY DEF Init, Promised, AutoRepos
<1> QED BY <1>1, <1>2 DEF Init, Invited

LEMMA NextInvited == TypeOK /\ Invited /\ [Next]_vars => Invited'
<1> SUFFICES ASSUME TypeOK, Invited, [Next]_vars PROVE Invited'
  OBVIOUS
<1>1. ASSUME NEW e \in Editor, NEW o \in Order, Load(e, o) PROVE Invited'
  <2>1. file # Torn /\ Loaded(file) \in Config
    BY <1>1, LoadedType DEF Load, TypeOK
  <2>2. invited' = invited \cup (IF o.mode = "auto" THEN Asked(o.key) ELSE {})
    BY <1>1 DEF Load
  <2>3. Promised(Apply(Loaded(file), o)) \subseteq invited'
    BY <2>1, <2>2, ApplyInvites DEF Invited
  <2> DEFINE new == [phase |-> "loaded", order |-> o,
                     text |-> Apply(Loaded(file), o), name |-> "none"]
  <2>4. ed' = [ed EXCEPT ![e] = new] /\ new.text = Apply(Loaded(file), o)
    BY <1>1 DEF Load
  <2> HIDE DEF new
  <2>5. ed'[e] = new /\ \A x \in Editor \ {e} : ed'[x] = ed[x]
    BY <2>4 DEF TypeOK
  <2>6. \A x \in Editor : ed'[x] # Free => Promised(ed'[x].text) \subseteq invited'
    BY <2>2, <2>3, <2>4, <2>5 DEF Invited
  <2>7. file' = file /\ tmp' = tmp
    BY <1>1 DEF Load
  <2> QED BY <2>2, <2>6, <2>7 DEF Invited
<1>2. ASSUME NEW e \in Editor, Open(e) PROVE Invited'
  <2>1. ed[e] # Free
    BY <1>2, PhaseOfEdit DEF Open
  <2>2. \A x \in Editor : ed'[x] # Free => ed[x] # Free /\ ed'[x].text = ed[x].text
    BY <1>2, <2>1, MovedEdit DEF Open
  <2>3. tmp' \notin Config /\ file' = file /\ invited' = invited
    BY <1>2, FileAssumption DEF Open
  <2> QED BY <2>2, <2>3 DEF Invited
<1>3. ASSUME NEW e \in Editor, Write(e) PROVE Invited'
  <2>1. ed[e] # Free /\ ed[e] \in Edit /\ ed[e].text \in Config
    BY <1>3, PhaseOfEdit DEF Write, Edit
  <2>2. \A x \in Editor : ed'[x] # Free => ed[x] # Free /\ ed'[x].text = ed[x].text
    BY <1>3, <2>1, MovedEdit DEF Write
  <2>3. /\ tmp' = tmp \/ tmp' \in Over(tmp, ed[e].text)
        /\ file' = file \/ file' \in Over(file, ed[e].text)
        /\ invited' = invited
    BY <1>3 DEF Write
  <2>4. Promised(ed[e].text) \subseteq invited /\ Torn \notin Config
    BY <2>1, FileAssumption DEF Invited
  <2>5. ASSUME NEW old, old \in Config => Promised(old) \subseteq invited,
               NEW c \in Over(old, ed[e].text), c # Torn
        PROVE  c \in Config /\ Promised(c) \subseteq invited
    BY <2>1, <2>4, <2>5, MixedEffect DEF Over
  <2>6. file' # Torn => Promised(Loaded(file')) \subseteq invited'
    <3>1. file \in Config => Promised(file) \subseteq invited
      BY <2>4, ConfigIsLoaded DEF Invited
    <3> QED BY <2>3, <2>5, <3>1, ConfigIsLoaded DEF Invited
  <2>7. tmp' \in Config => Promised(tmp') \subseteq invited'
    BY <2>3, <2>4, <2>5 DEF Invited
  <2>8. \A x \in Editor : ed'[x] # Free => Promised(ed'[x].text) \subseteq invited'
    BY <2>2, <2>3 DEF Invited
  <2> QED BY <2>6, <2>7, <2>8 DEF Invited
<1>4. ASSUME NEW e \in Editor, Replace(e) PROVE Invited'
  <2>1. invited' = invited
    BY <1>4 DEF Replace
  <2>2. CASE tmp = Missing
    BY <1>4, <2>1, <2>2 DEF Replace, Invited, TypeOK
  <2>3. CASE tmp # Missing
    <3>1. file' = tmp /\ tmp' = Missing /\ Missing \notin Config
      BY <1>4, <2>3, FileAssumption DEF Replace
    <3>2. tmp \in Config \/ tmp = Empty \/ tmp = Torn
      BY <2>3 DEF TypeOK
    <3>3. file' # Torn => Promised(Loaded(file')) \subseteq invited
      BY <3>1, <3>2, ConfigIsLoaded, EmptyInvitesNone DEF Invited
    <3>4. \A x \in Editor : ed'[x] # Free => ed[x] # Free /\ ed'[x].text = ed[x].text
      BY <1>4, <2>3, RenamedEdit DEF Replace
    <3> QED BY <2>1, <3>1, <3>3, <3>4 DEF Invited
  <2> QED BY <2>2, <2>3
<1>5. ASSUME NEW e \in Editor, Kill(e) PROVE Invited'
  BY <1>5 DEF Kill, Invited, TypeOK
<1>6. CASE UNCHANGED vars
  BY <1>6 DEF vars, Invited
<1> QED BY <1>1, <1>2, <1>3, <1>4, <1>5, <1>6 DEF Next

\* Whatever edits overlap or are killed, auto_repos gives the poller no repository that
\* nobody has asked to be reviewed.
THEOREM UninvitedNever == Spec => []NeverUninvited
<1>1. TypeOK /\ Invited => NeverUninvited
  <2>1. TypeOK /\ file # Torn => Loaded(file) \in Config
    BY LoadedType DEF TypeOK
  <2> QED BY <2>1, AutoIsPromised DEF Invited, NeverUninvited
<1> QED BY <1>1, InitType, NextType, InitInvited, NextInvited, PTL DEF Spec

-----------------------------------------------------------------------------
(* What an edit has set is what is done and shown. *)

\* The effect that the order o about repository r should have on configuration d.
Stuck(d, o, r) ==
  /\ RepoMode(d, r) = IF o.mode = "remove" THEN "none" ELSE o.mode
  /\ r \in AutoRepos(d) <=> o.mode = "auto"

LEMMA OnceMeans ==
  ASSUME NEW c, NEW r \in Repo, ~Twice(c), r \in Keys(c), r[2] \in Keys(c)
  PROVE  r[1] # c.org
  BY RepoParts DEF Twice

LEMMA RemoveSticks ==
  ASSUME NEW c \in Config, NEW o \in Order, ~Twice(c), o.mode = "remove"
  PROVE  /\ ~Twice(Apply(c, o))
         /\ \A r \in Meant(Apply(c, o), o.key) : Stuck(Apply(c, o), o, r)
<1> DEFINE K == IF o.key \in Keys(c) THEN {o.key}
                ELSE {x \in Keys(c) : BareName(x) = BareName(o.key)}
           d == Apply(c, o)
<1>1. d = Without(c, K)
  BY DEF Apply, Remove
<1>2. Keys(d) = Keys(c) \ K /\ d.org = c.org
  BY <1>1, WithoutEffect
<1>3. ~Twice(d)
  BY <1>2 DEF Twice
<1>4. ASSUME NEW r \in Meant(d, o.key) PROVE Stuck(d, o, r)
  <2>1. r \in Repo
    BY <1>4, OrderParts DEF Meant
  <2>2. o.key = r \/ (o.key \notin Repo /\ o.key = r[2] /\ r[1] = c.org)
    BY <1>2, <1>4 DEF Meant
  <2>3. BareName(r) = r[2] /\ BareName(r[2]) = r[2] /\ BareName(o.key) = r[2]
    BY <2>1, <2>2, RepoParts, KeyAssumption DEF BareName
  <2>4. CASE o.key \in Keys(c)
    <3>1. r \notin Keys(d)
      BY <1>2, <2>1, <2>2, <2>4, OnceMeans
    <3>2. r[1] = c.org => r[2] \notin Keys(d)
      BY <1>2, <2>1, <2>2, <2>4, OnceMeans
    <3> QED BY <1>2, <3>1, <3>2 DEF Stuck, RepoMode, AutoRepos, Has
  <2>5. CASE o.key \notin Keys(c)
    <3>1. r \notin Keys(d) /\ r[2] \notin Keys(d)
      BY <1>2, <2>3, <2>5
    <3> QED BY <3>1 DEF Stuck, RepoMode, AutoRepos, Has
  <2> QED BY <2>4, <2>5
<1> QED BY <1>3, <1>4

LEMMA SetModeSticks ==
  ASSUME NEW c \in Config, NEW o \in Order, ~Twice(c), o.mode # "remove"
  PROVE  /\ o.key \in Repo => ~Twice(Apply(c, o))
         /\ ~Twice(Apply(c, o)) =>
              \A r \in Meant(Apply(c, o), o.key) : Stuck(Apply(c, o), o, r)
<1> DEFINE key == ResolveKey(c, o.key)
           d == Apply(c, o)
<1>1. d = SetMode(c, o.key, o.mode) /\ o.mode \in Mode /\ o.key \in Key
  BY OrderParts DEF Apply
<1>2. Keys(d) = Keys(c) \cup {key} /\ d.org = c.org /\ d.repos[key] = o.mode
  BY <1>1, SetModeEffect
<1>3. \/ key = o.key /\ (o.key \in Keys(c) \/ o.key \notin Repo \/ o.key[1] # c.org
                         \/ o.key[2] \notin Keys(c))
      \/ o.key \in Repo /\ key = o.key[2] /\ o.key[1] = c.org /\ key \in Keys(c)
  BY DEF ResolveKey
<1> HIDE DEF d, key
<1>4. ASSUME o.key \in Repo, Twice(d) PROVE FALSE
  <2>1. PICK n \in Name : n \in Keys(d) /\ <<c.org, n>> \in Keys(d)
    BY <1>2, <1>4 DEF Twice
  <2>2. ~(n \in Keys(c) /\ <<c.org, n>> \in Keys(c))
    BY DEF Twice
  <2>3. key \notin Keys(c) /\ key \in {n, <<c.org, n>>}
    BY <1>2, <2>1, <2>2
  <2>4. key = o.key /\ n # o.key
    BY <1>3, <1>4, <2>3, KeyAssumption
  <2>5. key = <<c.org, n>> /\ n \in Keys(c)
    BY <1>2, <2>1, <2>3, <2>4
  <2> QED BY <1>3, <1>4, <2>3, <2>4, <2>5
<1>5. ASSUME ~Twice(d), NEW r \in Meant(d, o.key) PROVE Stuck(d, o, r)
  <2>1. r \in Repo
    BY <1>5, OrderParts DEF Meant
  <2>2. o.key = r \/ (o.key \notin Repo /\ o.key = r[2] /\ r[1] = c.org)
    BY <1>2, <1>5 DEF Meant
  <2>3. CASE key = r
    <3>1. r \in Keys(d) /\ d.repos[r] = o.mode
      BY <1>2, <2>3
    <3>2. r[1] = d.org => r[2] \notin Keys(d)
      BY <1>5, <2>1, <3>1, OnceMeans
    <3> QED BY <2>1, <3>1, <3>2 DEF Stuck, RepoMode, AutoRepos, Has
  <2>4. CASE key # r
    <3>1. key = r[2] /\ r[1] = d.org
      BY <1>2, <1>3, <2>1, <2>2, <2>4
    <3>2. r[2] \in Keys(d) /\ d.repos[r[2]] = o.mode
      BY <1>2, <3>1
    <3>3. r \notin Keys(d)
      BY <1>5, <2>1, <3>1, <3>2, OnceMeans
    <3> QED BY <2>1, <3>1, <3>2, <3>3 DEF Stuck, RepoMode, AutoRepos, Has
  <2> QED BY <2>3, <2>4
<1> QED BY <1>4, <1>5 DEF d

\* What an edit has set is what the poller does and what is shown of the repository:
\* repo_mode and auto_repos agree with the order.
THEOREM EditsStick == Spec => EditSticks
<1> DEFINE Sticks(e) ==
      (Replace(e) /\ ~collided /\ ~Twice(file)) =>
        /\ ed[e].order.key \in Repo => ~Twice(file')
        /\ ~Twice(file') =>
             \A r \in Meant(file', ed[e].order.key) : Stuck(file', ed[e].order, r)
<1>1. ASSUME TypeOK, Alone, NEW e \in Editor PROVE Sticks(e)
  <2> SUFFICES ASSUME Replace(e), ~collided, ~Twice(file)
               PROVE  /\ ed[e].order.key \in Repo => ~Twice(file')
                      /\ ~Twice(file') =>
                           \A r \in Meant(file', ed[e].order.key) :
                             Stuck(file', ed[e].order, r)
    OBVIOUS
  <2>1. ed[e] # Free /\ ed[e] \in Edit /\ ed[e].order \in Order
    BY <1>1, PhaseOfEdit DEF Replace, Edit
  <2>2. /\ file \in Config /\ tmp = ed[e].text
        /\ ed[e].text = Apply(file, ed[e].order)
    BY <1>1, <2>1 DEF Replace, Alone
  <2>3. tmp # Missing
    BY <2>1, <2>2, FileAssumption DEF Edit
  <2>4. file' = Apply(file, ed[e].order)
    BY <2>2, <2>3 DEF Replace
  <2> QED BY <2>1, <2>2, <2>4, RemoveSticks, SetModeSticks
<1>2. TypeOK /\ Alone => [\A e \in Editor : Sticks(e)]_vars
  BY <1>1
<1>3. Spec => [](TypeOK /\ Alone)
  BY InitType, NextType, InitAlone, NextAlone, PTL DEF Spec
<1>4. Spec => [][\A e \in Editor : Sticks(e)]_vars
  BY <1>2, <1>3, PTL
<1> QED BY <1>4 DEF EditSticks, Stuck
=============================================================================
