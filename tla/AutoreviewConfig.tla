-------------------------- MODULE AutoreviewConfig --------------------------
(***************************************************************************)
(* autoreview.yml (src/autoreview_config.py): which repositories the       *)
(* poller reviews by itself.  A repository is written owner/name, or by    *)
(* its bare name if it is one of the configured organisation.              *)
(*                                                                         *)
(* Edits (autoreview --add-repo, --rm-repo) are processes of their own.    *)
(* Each reads the file, writes the new text to a temporary file that has   *)
(* the same name for all of them, and renames that.  They may overlap, and *)
(* may be killed at any point.                                             *)
(***************************************************************************)
EXTENDS Naturals

CONSTANTS
  Editor,        \* edits under way
  Owner, Name,   \* owners and names of repositories
  Org,           \* the organisation of the configuration
  NoOrg,         \* DEFAULTS["org"]
  Missing,       \* a file that does not exist
  Empty,         \* a file that has been truncated
  Torn,          \* a file that holds parts of two texts and is no configuration
  Order          \* what edits are asked to do: --add-repo with --mode, or --rm-repo

Repo == Owner \X Name

\* A key of "repos": a bare name or owner/name.
Key == Name \cup Repo

Mode == {"auto", "manual"}

\* What load_config returns, as far as repositories go.
Config == [org : {Org, NoOrg}, repos : UNION {[K -> Mode] : K \in SUBSET Key}]

ASSUME KeyAssumption == Org \in Owner /\ NoOrg \notin Owner /\ Name \cap Repo = {}
ASSUME FileAssumption == {Missing, Empty, Torn} \cap Config = {}
                         /\ Missing # Empty /\ Missing # Torn /\ Empty # Torn

ASSUME OrderAssumption == Order \subseteq [key : Key, mode : Mode \cup {"remove"}]

VARIABLES
  file,          \* autoreview.yml
  tmp,           \* autoreview.yml.tmp
  ed,            \* each edit: phase, order, new text, the name its open file has now
  invited,       \* history: repositories that were auto at first or were asked to be
  collided       \* history: two edits have overlapped

vars == <<file, tmp, ed, invited, collided>>

Free == [phase |-> "free"]

\* An edit that has read the file.
Edit == [phase : {"loaded", "opened", "written"}, order : Order, text : Config,
         name : {"none", "tmp", "file", "gone"}]

\* Every variable has its type.
TypeOK == /\ file \in Config \cup {Empty, Torn}
          /\ tmp \in Config \cup {Missing, Empty, Torn}
          /\ ed \in [Editor -> Edit \cup {Free}]
          /\ invited \subseteq Repo
          /\ collided \in BOOLEAN

-----------------------------------------------------------------------------
(* Reading the configuration. *)

Keys(c) == DOMAIN c.repos

Has(c, k, m) == k \in Keys(c) /\ c.repos[k] = m

\* Faulty: a bare key stands for every owner's repository of this name.
AutoReposAnyOwner(c) ==
  {r \in Repo : Has(c, r, "auto") \/ Has(c, r[2], "auto")}

\* auto_repos: what the poller reviews.
AutoRepos(c) ==
  {r \in Repo : Has(c, r, "auto") \/ (r[1] = c.org /\ Has(c, r[2], "auto"))}

\* repo_mode: what is shown of a repository.
RepoMode(c, r) == IF r \in Keys(c) THEN c.repos[r]
                  ELSE IF r[1] = c.org /\ r[2] \in Keys(c) THEN c.repos[r[2]]
                  ELSE "none"

\* Faulty: an edit of owner/name does not look for the bare name.
KeyAsGiven(c, k) == k

\* resolve_key: the entry that an edit of k changes or creates.
ResolveKey(c, k) ==
  IF k \in Repo /\ k \notin Keys(c) /\ k[1] = c.org /\ k[2] \in Keys(c) THEN k[2] ELSE k

\* A repository with two entries, one under each of its names.
Twice(c) == \E n \in Name : {n, <<c.org, n>>} \subseteq Keys(c)

-----------------------------------------------------------------------------
(* What an edit makes of it. *)

BareName(k) == IF k \in Repo THEN k[2] ELSE k

SetMode(c, k, m) ==
  LET key == ResolveKey(c, k)
  IN  [c EXCEPT !.repos = [x \in Keys(c) \cup {key} |-> IF x = key THEN m ELSE c.repos[x]]]

Without(c, K) == [c EXCEPT !.repos = [x \in Keys(c) \ K |-> c.repos[x]]]

\* remove_repo: the exact key, or else every key with this bare name.
Remove(c, k) ==
  Without(c, IF k \in Keys(c) THEN {k} ELSE {x \in Keys(c) : BareName(x) = BareName(k)})

\* Faulty: set_repo_mode stores what it is given.
ApplyAsGiven(c, o) == SetMode(c, o.key, o.mode)

Apply(c, o) == IF o.mode = "remove" THEN Remove(c, o.key) ELSE SetMode(c, o.key, o.mode)

\* The repository that an order is about, if there is an organisation for a bare name.
Meant(c, k) == IF k \in Repo THEN {k} ELSE {r \in Repo : r[1] = c.org /\ r[2] = k}

\* The repository that an order invites: a bare name is one of the organisation, even
\* while an emptied file does not name it.
Asked(k) == {r \in Repo : r = k \/ (r[1] = Org /\ r[2] = k)}

\* load_config: an empty text is a configuration in which everything has its default.
Loaded(f) == IF f = Empty THEN [org |-> NoOrg, repos |-> [k \in {} |-> "auto"]] ELSE f

-----------------------------------------------------------------------------
(* Edits. *)

Init == /\ file \in {c \in Config : c.org = Org /\ Keys(c) \subseteq Name}
        /\ tmp = Missing
        /\ ed = [e \in Editor |-> Free]
        /\ invited = AutoRepos(file)
        /\ collided = FALSE

\* load_config, resolve_key and the change in memory.  A torn text is refused (invalid
\* config YAML, or values that are not allowed), which ends the edit.
Load(e, o) ==
  /\ ed[e] = Free /\ file # Torn
  /\ ed' = [ed EXCEPT ![e] = [phase |-> "loaded", order |-> o,
                              text |-> Apply(Loaded(file), o), name |-> "none"]]
  /\ invited' = IF o.mode = "auto" THEN invited \cup Asked(o.key) ELSE invited
  /\ collided' = (collided \/ \E x \in Editor : ed[x] # Free)
  /\ UNCHANGED <<file, tmp>>

\* Faulty: the file itself is opened for writing.
OpenFile(e) ==
  /\ ed[e].phase = "loaded"
  /\ file' = Empty
  /\ ed' = [ed EXCEPT ![e].phase = "opened", ![e].name = "file"]
  /\ UNCHANGED <<tmp, invited, collided>>

\* write_text opens and truncates the temporary file, which may be another edit's.
Open(e) ==
  /\ ed[e].phase = "loaded"
  /\ tmp' = Empty
  /\ ed' = [ed EXCEPT ![e].phase = "opened", ![e].name = "tmp"]
  /\ UNCHANGED <<file, invited, collided>>

\* What can be read in a text whose end is that of a longer one: the settings come first
\* and are the new ones; "repos" comes last, may go on with entries of the older text,
\* and of two entries for a key the later one counts.
Mixed(old, new) ==
  IF old \in Config
  THEN {[new EXCEPT !.repos = [k \in Keys(new) \cup K |->
           IF k \in K THEN old.repos[k] ELSE new.repos[k]]] : K \in SUBSET Keys(old)}
  ELSE {}

\* A text written over another one since the file was truncated may leave its rest.
Over(old, new) == IF old \in {Empty, new} THEN {new} ELSE {new, Torn} \cup Mixed(old, new)

\* The text reaches the file that was opened, under whatever name it now has.
Write(e) ==
  /\ ed[e].phase = "opened"
  /\ IF ed[e].name = "tmp" THEN tmp' \in Over(tmp, ed[e].text) ELSE UNCHANGED tmp
  /\ IF ed[e].name = "file" THEN file' \in Over(file, ed[e].text) ELSE UNCHANGED file
  /\ ed' = [ed EXCEPT ![e].phase = "written", ![e].name = "none"]
  /\ UNCHANGED <<invited, collided>>

\* Open files keep their file when it is renamed or replaced.
Renamed(x) == IF ed[x] = Free THEN Free
              ELSE [ed[x] EXCEPT !.name = IF @ = "tmp" THEN "file"
                                          ELSE IF @ = "file" THEN "gone" ELSE @]

\* os.replace, or its FileNotFoundError if another edit was faster.
Replace(e) ==
  /\ ed[e].phase = "written"
  /\ IF tmp = Missing
     THEN ed' = [ed EXCEPT ![e] = Free] /\ UNCHANGED <<file, tmp>>
     ELSE /\ file' = tmp
          /\ tmp' = Missing
          /\ ed' = [x \in Editor |-> IF x = e THEN Free ELSE Renamed(x)]
  /\ UNCHANGED <<invited, collided>>

Kill(e) == /\ ed[e] # Free
           /\ ed' = [ed EXCEPT ![e] = Free]
           /\ UNCHANGED <<file, tmp, invited, collided>>

Next == \E e \in Editor : \/ \E o \in Order : Load(e, o)
                          \/ Open(e) \/ Write(e) \/ Replace(e) \/ Kill(e)

Spec == Init /\ [][Next]_vars

-----------------------------------------------------------------------------
(* Properties. *)

\* Edits that are killed leave the old text or the new one (_write_atomic), and the new
\* one is the order of one edit done to the text that stands, as long as no two edits
\* have overlapped: these write to one temporary file.
EditsAreAtomic ==
  [][collided \/ file' = file
     \/ \E e \in Editor : ed[e] # Free /\ file' = Apply(file, ed[e].order)]_vars

\* Whatever edits overlap or die, and even if texts were mixed, the poller reviews no
\* repository that nobody has ever asked it to; a bare name is not an invitation to
\* every owner's repository.
NeverUninvited == file # Torn => AutoRepos(Loaded(file)) \subseteq invited

\* What an edit has set is what the poller does and what is shown (the test
\* test_repo_mode_agrees_with_auto_repos: "The badge and the poller must not disagree
\* about what is auto"), as long as no edits have overlapped and no repository has
\* two entries.  An edit of owner/name does not create the second one (resolve_key);
\* an edit that gives the bare name only may.
EditSticks ==
  [][\A e \in Editor :
       (Replace(e) /\ ~collided /\ ~Twice(file)) =>
         /\ ed[e].order.key \in Repo => ~Twice(file')
         /\ ~Twice(file') =>
              \A r \in Meant(file', ed[e].order.key) :
                /\ RepoMode(file', r) = IF ed[e].order.mode = "remove" THEN "none"
                                        ELSE ed[e].order.mode
                /\ r \in AutoRepos(file') <=> ed[e].order.mode = "auto"]_vars
=============================================================================
