-------------------------- MODULE StageList_proofs --------------------------
(***************************************************************************)
(* The list of a stage, for any build root, any packages and any lists of  *)
(* the user's: what the invariants of StageList say of it.                 *)
(***************************************************************************)
EXTENDS StageList, Recursion_proofs

AllLines(lists) == UNION {Elements(list) : list \in Elements(lists)}

\* The build root and the packages are as they were; of the user's lists some
\* are left.
InputOK == \E s \in Start :
    /\ root = s.root /\ owns = s.owns /\ staged = s.staged
    /\ userLists \in Seq(Elements(s.userLists))
    /\ phase = "user" => lines \in Seq(AllLines(s.userLists))

\* What an entry says of its node.
EntryOK(n, e) ==
    /\ {"type", "source", "target"} \subseteq DOMAIN e
    /\ e.type \in EntryType
    /\ e.own => e.source = n
    /\ IF e.own /\ e.type = "file"
       THEN /\ n \in DOMAIN root /\ root[n].kind = "file"
            /\ e.inode = IF root[n].nlink > 1 THEN root[n].inode ELSE NoInode
       ELSE e.inode = NoInode

\* The lines to be read are those of the present list.
LinesOK ==
    /\ phase = "dev" => lines \in Seq(Elements(DevDirSetup))
    /\ phase = "magic" => lines \in Seq(Elements(StageMagic))
    /\ phase = "standard" => lines \in Seq(Elements(StandardStageDirs))
    /\ phase \in {"packages", "links", "parents"} => lines = <<>>
    /\ failed => phase \in {"dev", "magic", "standard", "user", "error"}

\* A device node that others are made like is listed or will be.
DevsOK ==
    phase = "dev" /\ ~failed => \A x \in DevDirExtend :
        \/ x.of \in DOMAIN entries /\ entries[x.of].type = "node"
        \/ \E k \in DOMAIN lines : lines[k].name = x.of

\* The first part of the inductive invariant.
Basic ==
    /\ TypeOK
    /\ InputOK
    /\ \A n \in DOMAIN entries : EntryOK(n, entries[n])
    /\ LinesOK
    /\ DevsOK

\* The second: where listed names come from.
LinkLeads(l) ==
    \/ ListsName(l)
    \/ /\ UltimateTarget(l) \in DOMAIN entries
       /\ phase \in {"links", "dev", "magic"} => UltimateTarget(l) \notin excluded
LinksOK ==
    phase \in {"links", "dev", "magic", "standard", "parents"} =>
        \A l \in (DOMAIN entries \cap Links) \ FilesOf(staged) :
            entries[l].type = "symlink" => LinkLeads(l)
OriginsOK ==
    /\ phase = "links" => DOMAIN entries \cap excluded \subseteq Links
    /\ phase = "links" => todo \subseteq Links
    /\ phase = "standard" => \A n \in DOMAIN entries \cap excluded :
          \E k \in DOMAIN StandardStageDirs : StandardStageDirs[k].name = n
    /\ phase = "parents" => \A n \in DOMAIN entries \cap excluded :
          \/ \E k \in DOMAIN StandardStageDirs : StandardStageDirs[k].name = n
          \/ entries[n].type = "dir" /\ Below(n, DOMAIN entries) # {}

\* The third: what is above a listed name is listed or will be.
ParentsOK ==
    phase = "parents" =>
        /\ \A dir \in todo : \E m \in DOMAIN entries : dir = Dir(m)
        /\ \A n \in DOMAIN entries : \A k \in 1 .. Len(n) :
              \/ SubSeq(n, 1, k) \in DOMAIN entries
              \/ \E dir \in todo : SubSeq(n, 1, k) \in Upwards(dir)

FilesOK == phase # "done" => files = <<>>

-----------------------------------------------------------------------------
(* Paths.                                                                  *)

\* Names are paths; what a name begins with is a name.
LEMMA NameType ==
    /\ Name \subseteq Seq(STRING)
    /\ \A n \in Name : \A k \in 0 .. Len(n) : SubSeq(n, 1, k) \in Name
<1>1. Name \subseteq Seq(STRING)
  <2> SUFFICES ASSUME NEW k \in DOMAIN NameOrder PROVE NameOrder[k] \in Seq(STRING)
    BY DEF Name, Elements
  <2>1. NameOrder \in Seq(Seq(STRING))
    BY OrderAssumption
  <2> QED BY <2>1, ElementOfSeq
<1> QED BY <1>1, OrderAssumption

\* A path below another is longer, and begins with that.
LEMMA BelowPath ==
    ASSUME NEW p \in Seq(STRING), NEW q \in Seq(STRING), IsStrictPrefix(p, q)
    PROVE  Len(p) < Len(q) /\ p = SubSeq(q, 1, Len(p))
  BY DEF IsStrictPrefix, IsPrefix

\* ... and is made of that and the rest.
LEMMA PathAndRest ==
    ASSUME NEW p \in Seq(STRING), NEW q \in Seq(STRING), IsStrictPrefix(p, q)
    PROVE  p \o SubSeq(q, Len(p) + 1, Len(q)) = q
<1>1. Len(p) < Len(q) /\ p = SubSeq(q, 1, Len(p)) /\ Len(p) \in Nat /\ Len(q) \in Nat
  BY BelowPath
<1>2. SubSeq(q, 1, Len(p)) \o SubSeq(q, Len(p) + 1, Len(q)) = SubSeq(q, 1, Len(q))
  <2>1. /\ 1 \in 1 .. Len(q) + 1 /\ Len(p) \in 1 - 1 .. Len(q)
        /\ Len(q) \in Len(p) .. Len(q)
    BY <1>1
  <2> QED BY <2>1, ConcatAdjacentSubSeq, Zenon
<1> QED BY <1>1, <1>2, SubSeqFull

\* The directories of a path.
LEMMA UpwardsType ==
    ASSUME NEW n \in Seq(STRING)
    PROVE  /\ Dir(n) \in Seq(STRING)
           /\ n # <<>> => /\ Len(Dir(n)) = Len(n) - 1 /\ IsStrictPrefix(Dir(n), n)
                          /\ \A k \in 0 .. Len(n) - 1 : SubSeq(Dir(n), 1, k) = SubSeq(n, 1, k)
           /\ Upwards(n) = IF n = <<>> THEN {n} ELSE {SubSeq(n, 1, k) : k \in 1 .. Len(n)}
<1>1. CASE n = <<>>
  BY <1>1 DEF Dir, Upwards
<1>2. CASE n # <<>>
  <2>1. Len(n) \in Nat \ {0} /\ Dir(n) = SubSeq(n, 1, Len(n) - 1)
    BY <1>2 DEF Dir, Front
  <2>2. Dir(n) \in Seq(STRING) /\ Len(Dir(n)) = Len(n) - 1
        /\ \A k \in 1 .. Len(n) - 1 : Dir(n)[k] = n[k]
    <3>1. \A k \in 1 .. Len(n) - 1 : n[k] \in STRING
      BY <2>1
    <3> DEFINE m == Len(n) - 1
    <3>2. 1 \in Int /\ m \in Int
      BY <2>1
    <3> HIDE DEF m
    <3>3. /\ SubSeq(n, 1, m) \in Seq(STRING)
          /\ Len(SubSeq(n, 1, m)) = IF 1 <= m THEN m - 1 + 1 ELSE 0
          /\ \A k \in 1 .. m - 1 + 1 : SubSeq(n, 1, m)[k] = n[1 + k - 1]
      BY <3>1, <3>2, SubSeqProperties DEF m
    <3>4. Dir(n) = SubSeq(n, 1, m) /\ m \in Nat /\ m = Len(n) - 1
      BY <2>1 DEF m
    <3>5. \A k \in 1 .. m : k \in 1 .. m - 1 + 1 /\ 1 + k - 1 = k
      BY <3>4
    <3>6. \A k \in 1 .. m : Dir(n)[k] = n[k]
      BY <3>3, <3>4, <3>5
    <3>7. Len(Dir(n)) = m
      <4>1. Len(SubSeq(n, 1, m)) = IF 1 <= m THEN m - 1 + 1 ELSE 0
        BY <3>3
      <4> HIDE DEF m
      <4>2. (IF 1 <= m THEN m - 1 + 1 ELSE 0) = m
        BY <3>4
      <4>3. Dir(n) = SubSeq(n, 1, m)
        BY <3>4
      <4> QED BY <4>1, <4>2, <4>3, Zenon
    <3> QED BY <3>3, <3>4, <3>6, <3>7
  <2>3. ASSUME NEW k \in 0 .. Len(n) - 1 PROVE SubSeq(Dir(n), 1, k) = SubSeq(n, 1, k)
    BY <2>1, <2>2
  <2>4. IsStrictPrefix(Dir(n), n)
    BY <2>1, <2>2, <2>3 DEF IsStrictPrefix, IsPrefix
  <2> QED BY <1>2, <2>2, <2>3, <2>4 DEF Upwards
<1> QED BY <1>1, <1>2

-----------------------------------------------------------------------------
(* What is added.                                                          *)

\* What the build root is like.
RootOK ==
    /\ DOMAIN root \subseteq Name
    /\ \A p \in DOMAIN root : root[p].kind \in NodeKind /\ root[p].inode # NoInode

LEMMA RootIsOK == InputOK => RootOK
  BY StartAssumption DEF InputOK, RootOK

\* What can be added without harm to the list.
Addable(e) ==
    /\ e.name \in Name
    /\ ~Skipped(e) => /\ TypeOf(e) \in EntryType
                      /\ TypeOf(e) = "file" /\ e.source = None => Kind(e.name) = "file"

LEMMA AddedIsOK ==
    ASSUME RootOK, NEW e, Addable(e), ~Skipped(e)
    PROVE  EntryOK(e.name, Entry(e))
<1>1. /\ Entry(e).type = TypeOf(e) /\ Entry(e).inode = Inode(e)
      /\ Entry(e).own = (e.source = None) /\ Entry(e).source = Source(e)
      /\ {"type", "source", "target"} \subseteq DOMAIN Entry(e)
  BY DEF Entry
<1>2. CASE TypeOf(e) = "file" /\ e.source = None
  <2>1. Kind(e.name) = "file"
    BY <1>2 DEF Addable
  <2>2. e.name \in DOMAIN root
    BY <2>1, OutsideAssumption DEF Kind, Exists, Addable
  <2>3. Node(e.name) = root[e.name]
    BY <2>2 DEF Node
  <2>4. root[e.name].kind = "file"
    BY <2>1, <2>2, <2>3 DEF Kind, Exists
  <2>5. Inode(e) = IF root[e.name].nlink > 1 THEN root[e.name].inode ELSE NoInode
    BY <1>2, <2>3 DEF Inode
  <2>6. Source(e) = e.name
    BY <1>2 DEF Source
  <2> QED BY <1>1, <1>2, <2>2, <2>4, <2>5, <2>6 DEF EntryOK, EntryType
<1>3. CASE ~(TypeOf(e) = "file" /\ e.source = None)
  <2>1. Inode(e) = NoInode
    BY <1>3 DEF Inode
  <2>2. e.source = None => Source(e) = e.name
    BY DEF Source
  <2> QED BY <1>1, <1>3, <2>1, <2>2 DEF EntryOK, Addable
<1> QED BY <1>2, <1>3

\* The entries with others.
LEMMA WithValue ==
    ASSUME NEW es
    PROVE  /\ DOMAIN With(es) = DOMAIN entries \cup {e.name : e \in {x \in es : ~Skipped(x)}}
           /\ \A n \in DOMAIN With(es) :
                 \/ \E e \in es : ~Skipped(e) /\ e.name = n /\ With(es)[n] = Entry(e)
                 \/ /\ n \in DOMAIN entries /\ With(es)[n] = entries[n]
                    /\ \A e \in es : ~Skipped(e) => e.name # n
<1> DEFINE new == {e \in es : ~Skipped(e)}
<1>1. With(es) = [n \in DOMAIN entries \cup {e.name : e \in new} |->
                    IF \E e \in new : e.name = n
                    THEN Entry(CHOOSE e \in new : e.name = n) ELSE entries[n]]
  BY DEF With
<1>2. ASSUME NEW n \in DOMAIN entries \cup {e.name : e \in new}
      PROVE  \/ \E e \in es : ~Skipped(e) /\ e.name = n /\ With(es)[n] = Entry(e)
             \/ /\ n \in DOMAIN entries /\ With(es)[n] = entries[n]
                /\ \A e \in es : ~Skipped(e) => e.name # n
  <2>1. CASE \E e \in new : e.name = n
    <3> DEFINE e == CHOOSE e \in new : e.name = n
    <3>1. e \in new /\ e.name = n
      BY <2>1
    <3>2. With(es)[n] = Entry(e)
      BY <1>1, <2>1
    <3> QED BY <3>1, <3>2
  <2>2. CASE ~\E e \in new : e.name = n
    BY <1>1, <2>2
  <2> QED BY <2>1, <2>2
<1> QED BY <1>1, <1>2

\* The same of its names, and of its values, by themselves.
LEMMA WithNames ==
    ASSUME NEW es
    PROVE  \A n : n \in DOMAIN With(es) <=>
                     \/ n \in DOMAIN entries
                     \/ \E e \in es : ~Skipped(e) /\ e.name = n
<1>1. DOMAIN With(es) = DOMAIN entries \cup {e.name : e \in {x \in es : ~Skipped(x)}}
  BY WithValue
<1> QED BY <1>1

LEMMA WithGives ==
    ASSUME NEW es, NEW n \in DOMAIN With(es)
    PROVE  \/ \E e \in es : ~Skipped(e) /\ e.name = n /\ With(es)[n] = Entry(e)
           \/ n \in DOMAIN entries /\ With(es)[n] = entries[n]
  BY WithValue

LEMMA WithIsOK ==
    ASSUME RootOK, NEW es, \A e \in es : Addable(e),
           DOMAIN entries \subseteq Name, \A n \in DOMAIN entries : EntryOK(n, entries[n])
    PROVE  /\ DOMAIN With(es) \subseteq Name
           /\ \A n \in DOMAIN With(es) : EntryOK(n, With(es)[n])
<1>1. \A e \in es : e.name \in Name
  BY DEF Addable
<1>2. DOMAIN With(es) = DOMAIN entries \cup {e.name : e \in {x \in es : ~Skipped(x)}}
  BY WithValue
<1>3. DOMAIN With(es) \subseteq Name
  BY <1>1, <1>2
<1>4. ASSUME NEW n \in DOMAIN With(es) PROVE EntryOK(n, With(es)[n])
  <2>1. CASE n \in DOMAIN entries /\ With(es)[n] = entries[n]
    BY <2>1
  <2>2. ASSUME NEW e \in es, ~Skipped(e), e.name = n, With(es)[n] = Entry(e)
        PROVE  EntryOK(n, With(es)[n])
    BY <2>2, AddedIsOK
  <2> QED BY <2>1, <2>2, WithValue
<1> QED BY <1>3, <1>4

\* What addSingleFile does not refuse can be added.
LEMMA FitIsAddable ==
    ASSUME RootOK, NEW e, e.name \in Name, e.type \in EntryType \cup {"tbd"}, ~Unfit(e)
    PROVE  Addable(e)
<1> SUFFICES ASSUME ~Skipped(e)
             PROVE  /\ TypeOf(e) \in EntryType
                    /\ TypeOf(e) = "file" /\ e.source = None => Kind(e.name) = "file"
  BY DEF Addable
<1> DEFINE kind == Kind(Source(e))
<1>1. kind \in NodeKind \cup {"absent"}
  BY OutsideAssumption DEF RootOK, Kind, Exists, Node
<1>2. CASE e.type = "tbd"
  <2>1. kind \notin {"absent", "fifo", "socket"} /\ TypeOf(e) = kind
    BY <1>2 DEF Unfit, TypeOf
  <2> QED BY <1>1, <2>1 DEF NodeKind, EntryType, Source
<1>3. CASE e.type # "tbd"
  <2>1. TypeOf(e) = e.type /\ e.type \in EntryType
    BY <1>3 DEF TypeOf
  <2>2. ASSUME e.type = "file", e.source = None PROVE Kind(e.name) = "file"
    <3>1. NeedTypeCheck(e) /\ Source(e) = e.name
      BY <2>2 DEF NeedTypeCheck, Source
    <3>2. kind \in {"absent", "file"} /\ kind # "absent"
      BY <1>3, <2>1, <2>2, <3>1 DEF Unfit
    <3> QED BY <3>1, <3>2
  <2> QED BY <2>1, <2>2
<1> QED BY <1>2, <1>3

-----------------------------------------------------------------------------
(* Lines.                                                                  *)

\* What the lines of all lists are like.
LineOK(line) ==
    /\ line.name \in Name
    /\ \A k \in DOMAIN line.options : LET o == line.options[k] IN
          o.option = "src" =>
             /\ line.options \in Seq(Elements(line.options))
             /\ o.wild => /\ o.value \in Seq(STRING)
                          /\ \A p \in DOMAIN root \cup DOMAIN Outside :
                                IsStrictPrefix(o.value, p)
                                  => line.name \o SubSeq(p, Len(o.value) + 1, Len(p)) \in Name

\* The elements of a list that is not empty.
LEMMA ListParts ==
    ASSUME NEW S, NEW list \in Seq(S), list # <<>>
    PROVE  /\ Head(list) \in S /\ Tail(list) \in Seq(S) /\ Head(list) = list[1]
           /\ 1 \in DOMAIN list
           /\ \A k \in DOMAIN list : k = 1 \/ \E j \in DOMAIN Tail(list) : Tail(list)[j] = list[k]
<1>1. Len(list) \in Nat \ {0} /\ DOMAIN list = 1 .. Len(list)
  OBVIOUS
<1>2. /\ Head(list) \in S /\ Tail(list) \in Seq(S) /\ Head(list) = list[1]
      /\ Len(Tail(list)) = Len(list) - 1 /\ DOMAIN Tail(list) = 1 .. Len(list) - 1
      /\ \A j \in 1 .. Len(list) - 1 : Tail(list)[j] = list[j + 1]
  BY <1>1
<1>3. ASSUME NEW k \in DOMAIN list, k # 1
      PROVE  \E j \in DOMAIN Tail(list) : Tail(list)[j] = list[k]
  <2>1. k - 1 \in 1 .. Len(list) - 1 /\ k - 1 + 1 = k
    BY <1>1, <1>3
  <2> QED BY <1>2, <2>1
<1> QED BY <1>1, <1>2, <1>3

LEMMA ElementsOf ==
    ASSUME NEW S, NEW list \in Seq(S)
    PROVE  Elements(list) \subseteq S /\ list \in Seq(Elements(list))
<1>1. Len(list) \in Nat /\ DOMAIN list = 1 .. Len(list) /\ list \in [1 .. Len(list) -> S]
  OBVIOUS
<1>2. list \in [1 .. Len(list) -> Elements(list)]
  BY <1>1 DEF Elements
<1>3. Elements(list) \subseteq S
  BY <1>1 DEF Elements
<1> DEFINE E == Elements(list)
<1> HIDE DEF E
<1>4. list \in Seq(E)
  BY <1>1, <1>2 DEF E
<1> QED BY <1>3, <1>4 DEF E

\* Those of the program's own lists have no source.
LEMMA OwnLineOK ==
    ASSUME NEW line \in OwnLists
    PROVE  LineOK(line) /\ line.type # "omit" /\ ParseLine(line).source = None
                        /\ (ParseLine(line).wild <=> line.wild)
<1> DEFINE given(o) == {k \in DOMAIN line.options : line.options[k].option = o}
<1>1. /\ line.type # "omit" /\ line.name \in Name
      /\ \A k \in DOMAIN line.options : line.options[k].option # "src"
  BY OwnListsAssumption
<1>2. given("src") = {}
  BY <1>1
<1>3. ParseLine(line).source = None
  BY <1>2 DEF ParseLine
<1>4. ParseLine(line).wild <=> (line.wild \/ \E k \in given("src") : line.options[k].wild)
  BY DEF ParseLine
<1>5. ParseLine(line).wild <=> (line.wild \/ FALSE)
  BY <1>2, <1>4
<1> QED BY <1>1, <1>3, <1>5 DEF LineOK

LEMMA OwnListsAre ==
    /\ Elements(DevDirSetup) \subseteq OwnLists
    /\ Elements(StageMagic) \subseteq OwnLists
    /\ Elements(StandardStageDirs) \subseteq OwnLists
  BY DEF OwnLists

\* The line that is read, and what remains.
LEMMA LineRead ==
    ASSUME Basic, InList
    PROVE  /\ LineOK(Head(lines))
           /\ phase # "user" => Head(lines) \in OwnLists
           /\ LinesOK /\ InputOK
           /\ phase = "dev" => Tail(lines) \in Seq(Elements(DevDirSetup))
           /\ phase = "magic" => Tail(lines) \in Seq(Elements(StageMagic))
           /\ phase = "standard" => Tail(lines) \in Seq(Elements(StandardStageDirs))
           /\ phase = "dev" => Head(lines) \in Elements(DevDirSetup)
           /\ phase = "magic" => Head(lines) \in Elements(StageMagic)
           /\ phase = "standard" => Head(lines) \in Elements(StandardStageDirs)
           /\ \A s \in Start : phase = "user" /\ lines \in Seq(AllLines(s.userLists))
                                 => Tail(lines) \in Seq(AllLines(s.userLists))
<1>1. LinesOK /\ InputOK /\ phase \in {"dev", "magic", "standard", "user"} /\ lines # <<>>
  BY DEF Basic, InList
<1>2. /\ phase = "dev" => Tail(lines) \in Seq(Elements(DevDirSetup))
                          /\ Head(lines) \in Elements(DevDirSetup)
      /\ phase = "magic" => Tail(lines) \in Seq(Elements(StageMagic))
                          /\ Head(lines) \in Elements(StageMagic)
      /\ phase = "standard" => Tail(lines) \in Seq(Elements(StandardStageDirs))
                          /\ Head(lines) \in Elements(StandardStageDirs)
  BY <1>1, ListParts DEF LinesOK
<1>3. \A s \in Start : phase = "user" /\ lines \in Seq(AllLines(s.userLists))
         => Tail(lines) \in Seq(AllLines(s.userLists)) /\ Head(lines) \in AllLines(s.userLists)
  BY <1>1, ListParts
<1>4. CASE phase # "user"
  <2>1. Head(lines) \in OwnLists
    BY <1>1, <1>2, <1>4, OwnListsAre
  <2> QED BY <1>1, <1>2, <1>3, <1>4, <2>1, OwnLineOK
<1>5. CASE phase = "user"
  <2>1. PICK s \in Start : root = s.root /\ Head(lines) \in AllLines(s.userLists)
    BY <1>1, <1>3, <1>5 DEF InputOK
  <2>2. PICK list \in Elements(s.userLists) : Head(lines) \in Elements(list)
    BY <2>1 DEF AllLines
  <2>3. LineOK(Head(lines))
    BY <2>1, <2>2, StartAssumption DEF LineOK
  <2> QED BY <1>1, <1>2, <1>3, <1>5, <2>3
<1> QED BY <1>4, <1>5

\* What is made of a line, without or with a wildcard.
LEMMA ParsedType ==
    ASSUME NEW line, ParseLine(line).ok
    PROVE  /\ line.type \in EntryType \cup {"tbd", "omit"}
           /\ ParseLine(line).type = line.type /\ ParseLine(line).name = line.name
  BY DEF ParseLine, EntryType

\* A wildcard that is in the source, or in the name alone.
LEMMA WildSource ==
    ASSUME NEW line, LineOK(line), ParseLine(line).ok, ParseLine(line).wild,
           ParseLine(line).source # None
    PROVE  LET source == ParseLine(line).source
           IN  /\ source \in Seq(STRING)
               /\ \A p \in DOMAIN root \cup DOMAIN Outside :
                     IsStrictPrefix(source, p)
                       => line.name \o SubSeq(p, Len(source) + 1, Len(p)) \in Name
<1> DEFINE given(o) == {k \in DOMAIN line.options : line.options[k].option = o}
           last == CHOOSE k \in given("src") : \A j \in given("src") : j <= k
<1>1. given("src") # {} /\ ParseLine(line).source = line.options[last].value
  BY DEF ParseLine
<1>2. \A j, k \in given("src") : j = k
  BY DEF ParseLine
<1>3. \A k \in given("src") : ~line.wild
  BY DEF ParseLine, Allowed
<1>4. PICK k \in given("src") : line.options[k].wild
  BY <1>1, <1>3 DEF ParseLine
<1>5. k \in Nat
  <2>1. line.options \in Seq(Elements(line.options))
    BY DEF LineOK
  <2> QED BY <2>1
<1>6. last = k
  BY <1>2, <1>4, <1>5
<1>7. ParseLine(line).source = line.options[k].value
  BY <1>1, <1>6
<1> QED BY <1>4, <1>7 DEF LineOK

-----------------------------------------------------------------------------
(* What a line adds.                                                       *)

\* An item without a wildcard is itself.
LEMMA ExpandedPlain == ASSUME NEW e, ~e.wild PROVE Expanded(e) = {e}
  BY DEF Expanded

\* One with a wildcard is what is found, each with a path to it.
LEMMA ExpandedWild ==
    ASSUME NEW e, {"type", "name", "source", "wild", "glob"} \subseteq DOMAIN e, e.wild,
           NEW x \in Expanded(e)
    PROVE  \E p \in GlobFiles(e) :
              /\ x.name = e.name \o SubSeq(p, Len(Source(e)) + 1, Len(p))
              /\ x.type = "tbd"
              /\ x.source = IF e.source = None THEN None ELSE p
<1> DEFINE item(p) ==
        [e EXCEPT !.type = "tbd", !.wild = FALSE,
                  !.name = e.name \o SubSeq(p, Len(Source(e)) + 1, Len(p)),
                  !.source = IF e.source = None THEN None ELSE p]
<1>1. PICK p \in GlobFiles(e) : x = item(p)
  BY DEF Expanded
<1>2. /\ item(p).name = e.name \o SubSeq(p, Len(Source(e)) + 1, Len(p))
      /\ item(p).type = "tbd"
      /\ item(p).source = IF e.source = None THEN None ELSE p
  OBVIOUS
<1> HIDE DEF item
<1> QED BY <1>1, <1>2

\* Where no source is named these are files of the build root.
LEMMA ExpandedOwn ==
    ASSUME RootOK, NEW e, {"type", "name", "source", "wild", "glob"} \subseteq DOMAIN e, e.wild,
           e.source = None, e.name \in Seq(STRING), NEW x \in Expanded(e)
    PROVE  /\ x.name \in DOMAIN root /\ IsStrictPrefix(e.name, x.name)
           /\ x.type = "tbd" /\ x.source = None
<1>1. PICK p \in GlobFiles(e) : /\ x.name = e.name \o SubSeq(p, Len(Source(e)) + 1, Len(p))
                                /\ x.type = "tbd" /\ x.source = None
  BY ExpandedWild
<1>2. Source(e) = e.name
  BY DEF Source
<1>3. p \in DOMAIN root /\ IsStrictPrefix(e.name, p)
  BY <1>2 DEF GlobFiles, Below
<1>4. p \in Seq(STRING)
  BY <1>3, NameType DEF RootOK
<1>5. e.name \o SubSeq(p, Len(e.name) + 1, Len(p)) = p
  BY <1>3, <1>4, PathAndRest
<1> QED BY <1>1, <1>2, <1>3, <1>5

\* What a line adds has a name, and a type that a node can have.
LEMMA LineAdds ==
    ASSUME RootOK, NEW line, LineOK(line), ParseLine(line).ok, line.type # "omit",
           NEW x \in Expanded(ParseLine(line))
    PROVE  x.name \in Name /\ x.type \in EntryType \cup {"tbd"}
<1> DEFINE e == ParseLine(line)
<1>1. /\ e.type = line.type /\ e.name = line.name /\ line.type \in EntryType \cup {"tbd"}
      /\ e.name \in Name
  BY ParsedType DEF LineOK
<1>2. {"type", "name", "source", "wild", "glob"} \subseteq DOMAIN e
  BY DEF ParseLine
<1>x. x \in Expanded(e)
  OBVIOUS
<1>3. CASE ~e.wild
  <2> HIDE DEF e
  <2> QED BY <1>1, <1>x, <1>3, ExpandedPlain
<1>4. CASE e.wild /\ e.source = None
  <2> HIDE DEF e
  <2> QED BY <1>1, <1>2, <1>x, <1>4, ExpandedOwn, NameType DEF RootOK
<1>5. CASE e.wild /\ e.source # None
  <2>1. /\ e.source \in Seq(STRING)
        /\ \A p \in DOMAIN root \cup DOMAIN Outside :
              IsStrictPrefix(e.source, p)
                => line.name \o SubSeq(p, Len(e.source) + 1, Len(p)) \in Name
    BY <1>5, WildSource
  <2> HIDE DEF e
  <2>2. PICK p \in GlobFiles(e) : /\ x.name = e.name \o SubSeq(p, Len(Source(e)) + 1, Len(p))
                                  /\ x.type = "tbd"
    BY <1>2, <1>x, <1>5, ExpandedWild
  <2>3. Source(e) = e.source
    BY <1>5 DEF Source
  <2>4. p \in DOMAIN root \cup DOMAIN Outside /\ IsStrictPrefix(e.source, p)
    BY <2>3, <1>5 DEF GlobFiles, Below
  <2> QED BY <1>1, <2>1, <2>2, <2>3, <2>4
<1> QED BY <1>3, <1>4, <1>5

\* What does not fail can be added.
LEMMA LineIsAddable ==
    ASSUME Basic, InList, Line.ok, Line.type # "omit", ~AddFails(Expanded(Line))
    PROVE  \A x \in Expanded(Line) : Addable(x)
<1>1. RootOK /\ LineOK(Head(lines))
  BY LineRead, RootIsOK DEF Basic
<1>2. Head(lines).type # "omit"
  BY ParsedType DEF Line
<1> SUFFICES ASSUME NEW x \in Expanded(Line) PROVE Addable(x)
  OBVIOUS
<1>3. x.name \in Name /\ x.type \in EntryType \cup {"tbd"}
  BY <1>1, <1>2, LineAdds DEF Line
<1>4. ~Unfit(x)
  BY DEF AddFails
<1> QED BY <1>1, <1>3, <1>4, FitIsAddable

-----------------------------------------------------------------------------
(* What the steps add to the list.                                         *)

\* A link or a directory that is put in.
LEMMA PutInIsAddable ==
    ASSUME NEW n \in Name, NEW type \in {"symlink", "dir"}
    PROVE  Addable(Item(type, n, FALSE, FALSE))
  BY DEF Item, Addable, TypeOf, EntryType

\* What the packages own.
LEMMA FilesOfType ==
    ASSUME InputOK
    PROVE  /\ staged \subseteq DOMAIN owns /\ staged \subseteq DOMAIN VdbDir
           /\ FilesOf(DOMAIN owns) \subseteq Name /\ FilesOf(staged) \subseteq Name
  BY StartAssumption DEF InputOK, FilesOf

LEMMA PackageFileIs ==
    ASSUME NEW e \in PackageFiles
    PROVE  /\ e.name \in FilesOf(staged) /\ e.type = "tbd" /\ e.source = None
  BY DEF Item, PackageFiles

LEMMA PackageFileIsAddable ==
    ASSUME Basic, NEW e \in PackageFiles, ~Unfit(e)
    PROVE  Addable(e)
<1>1. RootOK /\ e.name \in Name /\ e.type = "tbd"
  BY RootIsOK, FilesOfType, PackageFileIs DEF Basic
<1> QED BY <1>1, FitIsAddable

LEMMA VdbFileIs ==
    ASSUME Basic, NEW p \in Vdb, NEW x \in VdbFiles(p)
    PROVE  /\ x.name \in DOMAIN root /\ IsStrictPrefix(VdbDir[p], x.name)
           /\ x.type = "tbd" /\ x.source = None
<1> DEFINE e == Item("dir", VdbDir[p], TRUE, FALSE)
<1>1. RootOK /\ p \in DOMAIN VdbDir /\ VdbDir[p] \in Seq(STRING)
  BY RootIsOK, FilesOfType, PathAssumption DEF Basic, Vdb
<1>2. /\ e.name = VdbDir[p] /\ e.wild /\ e.source = None
      /\ {"type", "name", "source", "wild", "glob"} \subseteq DOMAIN e
  BY DEF Item
<1>3. x \in Expanded(e)
  BY DEF VdbFiles
<1> HIDE DEF e
<1> QED BY <1>1, <1>2, <1>3, ExpandedOwn

LEMMA VdbFileIsAddable ==
    ASSUME Basic, NEW p \in Vdb, NEW x \in VdbFiles(p), ~AddFails(VdbFiles(p))
    PROVE  Addable(x)
<1>1. RootOK /\ DOMAIN root \subseteq Name
  BY RootIsOK DEF Basic, RootOK
<1>2. x.name \in Name /\ x.type = "tbd" /\ ~Unfit(x)
  BY <1>1, VdbFileIs DEF AddFails
<1> QED BY <1>1, <1>2, FitIsAddable

\* The further device nodes.
LEMMA DevLikeIs ==
    ASSUME Basic, EndOfList("dev"), NEW x \in DevDirExtend, NEW e \in DevsLike(x)
    PROVE  /\ e.name \in x.names /\ e.name \in Name
           /\ e.type = "node" /\ e.source = None /\ Addable(e)
<1>1. x.of \in DOMAIN entries /\ entries[x.of].type = "node"
  BY DEF Basic, DevsOK, EndOfList
<1>2. PICK n \in x.names :
         e = [Item("node", n, FALSE, FALSE) EXCEPT !.dev = entries[x.of].dev]
  BY <1>1 DEF DevsLike
<1>3. e.name = n /\ e.type = "node" /\ e.source = None
  BY <1>2 DEF Item
<1>4. n \in Name
  BY DevAssumption
<1> QED BY <1>3, <1>4 DEF Addable, TypeOf, EntryType

\* What is above a name is a name.
LEMMA AboveIsName ==
    ASSUME NEW n \in Name
    PROVE  Dir(n) \in Name /\ Upwards(n) \subseteq Name
<1>1. n \in Seq(STRING) /\ \A k \in 0 .. Len(n) : SubSeq(n, 1, k) \in Name
  BY NameType
<1>2. CASE n = <<>>
  BY <1>2 DEF Dir, Upwards
<1>3. CASE n # <<>>
  <2>1. Len(n) \in Nat \ {0} /\ Dir(n) = SubSeq(n, 1, Len(n) - 1)
    BY <1>1, <1>3 DEF Dir, Front
  <2>2. Dir(n) \in Name
    BY <1>1, <2>1
  <2>3. \A k \in 1 .. Len(n) : k \in 0 .. Len(n)
    BY <2>1
  <2>4. Upwards(n) = {SubSeq(n, 1, k) : k \in 1 .. Len(n)}
    BY <1>3 DEF Upwards
  <2> QED BY <1>1, <2>2, <2>3, <2>4
<1> QED BY <1>2, <1>3

-----------------------------------------------------------------------------
(* The first part of the invariant.                                        *)

\* What is the same where entries are added.
EntriesOK ==
    /\ DOMAIN entries \subseteq Name
    /\ \A n \in DOMAIN entries : EntryOK(n, entries[n])

LEMMA EntriesGrow ==
    ASSUME Basic, NEW es, \A e \in es : Addable(e), entries' = With(es), root' = root
    PROVE  EntriesOK'
<1>1. RootOK /\ DOMAIN entries \subseteq Name /\ \A n \in DOMAIN entries : EntryOK(n, entries[n])
  BY RootIsOK DEF Basic, TypeOK
<1>2. /\ DOMAIN With(es) \subseteq Name
      /\ \A n \in DOMAIN With(es) : EntryOK(n, With(es)[n])
  BY <1>1, WithIsOK
<1>3. \A n \in DOMAIN entries' : EntryOK(n, entries'[n])
  BY <1>2
<1>4. \A n, e : EntryOK(n, e)' <=> EntryOK(n, e)
  BY DEF EntryOK
<1> QED BY <1>2, <1>3, <1>4 DEF EntriesOK

LEMMA EntriesShrink ==
    ASSUME Basic, NEW S, entries' = Restrict(entries, DOMAIN entries \ S), root' = root
    PROVE  EntriesOK'
<1>1. EntriesOK
  BY DEF Basic, TypeOK, EntriesOK
<1>2. DOMAIN entries' = DOMAIN entries \ S /\ \A n \in DOMAIN entries' : entries'[n] = entries[n]
  BY DEF Restrict
<1>3. \A n, e : EntryOK(n, e)' <=> EntryOK(n, e)
  BY DEF EntryOK
<1> QED BY <1>1, <1>2, <1>3 DEF EntriesOK

LEMMA EntriesStay ==
    ASSUME Basic, entries' = entries, root' = root
    PROVE  EntriesOK'
  BY DEF Basic, TypeOK, EntriesOK, EntryOK

\* The rest of Basic, from its parts.
LEMMA BasicOf ==
    ASSUME EntriesOK, InputOK, LinesOK, DevsOK,
           phase \in {"packages", "links", "dev", "magic", "standard", "parents", "user",
                      "done", "error"},
           excluded \subseteq Name, todo \subseteq Name
    PROVE  Basic
  BY DEF Basic, TypeOK, EntriesOK, EntryOK, LinesOK

LEMMA InputStays ==
    ASSUME InputOK, UNCHANGED <<input, userLists>>, phase' # "user"
    PROVE  InputOK'
  BY DEF InputOK, input

LEMMA BasicInit == Init => Basic
<1> SUFFICES ASSUME Init PROVE Basic
  OBVIOUS
<1> USE DEF Init
<1>1. InputOK
  <2>1. PICK s \in Start : /\ root = s.root /\ owns = s.owns /\ staged = s.staged
                           /\ userLists = s.userLists
    OBVIOUS
  <2>2. s.userLists \in Seq(Elements(s.userLists))
    <3>1. s.userLists \in Seq(Seq(UNION {Elements(list) : list \in Elements(s.userLists)}))
      BY StartAssumption
    <3> QED BY <3>1, ElementsOf
  <2> QED BY <2>1, <2>2 DEF InputOK
<1>2. EntriesOK
  BY DEF EntriesOK
<1>3. LinesOK /\ DevsOK
  BY DEF LinesOK, DevsOK
<1> QED BY <1>1, <1>2, <1>3, BasicOf

\* A step that reads a line leaves the lines after it.
LEMMA InputRead ==
    ASSUME Basic, InList, UNCHANGED <<input, userLists, phase>>, lines' = Tail(lines)
    PROVE  InputOK'
<1>1. PICK s \in Start :
         /\ root = s.root /\ owns = s.owns /\ staged = s.staged
         /\ userLists \in Seq(Elements(s.userLists))
         /\ phase = "user" => lines \in Seq(AllLines(s.userLists))
  BY DEF Basic, InputOK
<1>2. phase = "user" => lines' \in Seq(AllLines(s.userLists))
  BY <1>1, LineRead
<1> QED BY <1>1, <1>2 DEF InputOK, input

LEMMA LinesRead ==
    ASSUME Basic, InList, UNCHANGED phase, lines' = Tail(lines)
    PROVE  LinesOK'
<1>1. phase \in {"dev", "magic", "standard", "user"}
  BY DEF InList
<1>2. /\ phase = "dev" => Tail(lines) \in Seq(Elements(DevDirSetup))
      /\ phase = "magic" => Tail(lines) \in Seq(Elements(StageMagic))
      /\ phase = "standard" => Tail(lines) \in Seq(Elements(StandardStageDirs))
  BY LineRead
<1> QED BY <1>1, <1>2 DEF LinesOK

\* A node that is to be listed is, once its line has been read.
LEMMA DevsRead ==
    ASSUME Basic, AddLine
    PROVE  DevsOK'
<1> SUFFICES ASSUME phase = "dev", ~failed, NEW x \in DevDirExtend
             PROVE  \/ x.of \in DOMAIN entries' /\ entries'[x.of].type = "node"
                    \/ \E k \in DOMAIN lines' : lines'[k].name = x.of
  BY DEF AddLine, Read, DevsOK
<1> DEFINE line == Head(lines)
<1>1. InList /\ lines' = Tail(lines) /\ entries' = With(Expanded(Line))
  BY DEF AddLine, Read
<1>2. line \in Elements(DevDirSetup) /\ line \in OwnLists
  BY <1>1, LineRead
<1>3. /\ ~line.wild /\ \A k \in DOMAIN line.options : line.options[k].option # "absent"
      /\ line.name = x.of => line.type = "node"
  BY <1>2, DevAssumption
<1>4. ~Line.wild /\ Line.name = line.name /\ Line.type = line.type
  BY <1>2, <1>3, OwnLineOK, ParsedType DEF Line, AddLine
<1>5. ~Line.skip
  BY <1>3 DEF Line, ParseLine
<1>6. Expanded(Line) = {Line} /\ ~Skipped(Line)
  BY <1>4, <1>5, ExpandedPlain DEF Skipped
<1> DEFINE es == Expanded(Line)
<1>7. /\ DOMAIN With(es) = DOMAIN entries \cup {e.name : e \in {y \in es : ~Skipped(y)}}
      /\ \A n \in DOMAIN With(es) :
            \/ \E e \in es : ~Skipped(e) /\ e.name = n /\ With(es)[n] = Entry(e)
            \/ /\ n \in DOMAIN entries /\ With(es)[n] = entries[n]
               /\ \A e \in es : ~Skipped(e) => e.name # n
  <2> HIDE DEF es
  <2> QED BY WithValue
<1>8. /\ entries' = With(es) /\ DOMAIN entries' = DOMAIN entries \cup {line.name}
      /\ \A n \in DOMAIN entries' :
            \/ n = line.name /\ entries'[n] = Entry(Line)
            \/ n \in DOMAIN entries /\ entries'[n] = entries[n] /\ n # line.name
  <2> DEFINE x1 == Line
  <2>1. es = {x1} /\ ~Skipped(x1) /\ x1.name = line.name /\ entries' = With(es)
    BY <1>1, <1>4, <1>6
  <2> HIDE DEF es, x1, line
  <2>2. {y \in es : ~Skipped(y)} = {x1}
    BY <2>1
  <2>3. {e.name : e \in {y \in es : ~Skipped(y)}} = {line.name}
    BY <2>1, <2>2
  <2>4. DOMAIN entries' = DOMAIN entries \cup {line.name}
    BY <1>7, <2>1, <2>3
  <2>5. \A n \in DOMAIN entries' :
            \/ n = line.name /\ entries'[n] = Entry(x1)
            \/ n \in DOMAIN entries /\ entries'[n] = entries[n] /\ n # line.name
    BY <1>7, <2>1
  <2> QED BY <2>1, <2>4, <2>5 DEF x1
<1>9. CASE x.of = line.name
  <2>1. TypeOf(Line) = "node"
    BY <1>3, <1>4, <1>9 DEF TypeOf
  <2>2. Entry(Line).type = "node"
    BY <2>1 DEF Entry
  <2> QED BY <1>8, <1>9, <2>2
<1>10. CASE x.of # line.name
  <2>1. CASE x.of \in DOMAIN entries /\ entries[x.of].type = "node"
    BY <1>8, <1>10, <2>1
  <2>2. ASSUME NEW k \in DOMAIN lines, lines[k].name = x.of
        PROVE  \E j \in DOMAIN lines' : lines'[j].name = x.of
    <3>1. lines \in Seq(Elements(DevDirSetup)) /\ lines # <<>>
      BY <1>1 DEF Basic, LinesOK, InList
    <3>2. lines[1] = line
      BY <3>1, ListParts
    <3>3. k # 1
      BY <1>10, <2>2, <3>2
    <3> QED BY <1>1, <2>2, <3>1, <3>3, ListParts
  <2> QED BY <2>1, <2>2 DEF Basic, DevsOK
<1> QED BY <1>9, <1>10

LEMMA BasicNext == Basic /\ [Next]_vars => Basic'
<1> SUFFICES ASSUME Basic, [Next]_vars PROVE Basic'
  OBVIOUS
<1> DEFINE Phases == {"packages", "links", "dev", "magic", "standard", "parents", "user",
                      "done", "error"}
<1>a. /\ InputOK /\ LinesOK /\ DevsOK /\ phase \in Phases
      /\ excluded \subseteq Name /\ todo \subseteq Name /\ DOMAIN entries \subseteq Name
  BY DEF Basic, TypeOK
<1>b. DOMAIN root \subseteq Name
  BY <1>a, RootIsOK DEF RootOK
<1>c. ASSUME EntriesOK', InputOK', LinesOK', DevsOK', phase' \in Phases,
             excluded' \subseteq Name, todo' \subseteq Name
      PROVE  Basic'
  BY <1>c DEF Basic, TypeOK, EntriesOK, EntryOK, LinesOK
<1>d. ASSUME Stop PROVE Basic'
  <2>1. EntriesOK' /\ InputOK'
    BY <1>a, <1>d, EntriesStay, InputStays DEF Stop, Goto, input
  <2>2. LinesOK' /\ DevsOK'
    BY <1>d DEF Stop, Goto, LinesOK, DevsOK
  <2> QED BY <1>a, <1>d, <2>1, <2>2, <1>c DEF Stop, Goto
<1>1. CASE GenerateFileList
  <2>1. \A e \in PackageFiles : Addable(e)
    BY <1>1, PackageFileIsAddable DEF GenerateFileList
  <2>2. EntriesOK'
    BY <1>1, <2>1, EntriesGrow DEF GenerateFileList, input
  <2>3. InputOK'
    BY <1>a, <1>1, InputStays DEF GenerateFileList, Goto
  <2>4. LinesOK' /\ DevsOK'
    BY <1>a, <1>1 DEF GenerateFileList, Goto, LinesOK, DevsOK
  <2>5. excluded' \subseteq Name /\ todo' \subseteq Name
    BY <1>a, <1>b, <1>1, FilesOfType DEF GenerateFileList, Links
  <2> QED BY <1>1, <2>2, <2>3, <2>4, <2>5, <1>c DEF GenerateFileList, Goto
<1>2. ASSUME NEW l \in todo, RecoverLink(l) PROVE Basic'
  <2>1. Addable(Item("symlink", l, FALSE, FALSE))
    BY <1>a, PutInIsAddable
  <2>2. EntriesOK'
    <3> DEFINE es == {Item("symlink", l, FALSE, FALSE)}
    <3>1. /\ root' = root /\ (entries' = With(es) \/ entries' = entries)
          /\ \A e \in es : Addable(e)
      BY <1>2, <2>1 DEF RecoverLink, input
    <3> HIDE DEF es
    <3> QED BY <3>1, EntriesGrow, EntriesStay
  <2>3. InputOK'
    BY <1>a, <1>2, InputStays DEF RecoverLink
  <2>4. LinesOK' /\ DevsOK'
    BY <1>a, <1>2 DEF RecoverLink, LinesOK, DevsOK
  <2> QED BY <1>a, <1>2, <2>2, <2>3, <2>4, <1>c DEF RecoverLink
<1>3. ASSUME NEW dir \in todo, AddParents(dir) PROVE Basic'
  <2> DEFINE es == {Item("dir", d, FALSE, FALSE) : d \in Upwards(dir) \ DOMAIN entries}
  <2>1. \A e \in es : Addable(e)
    BY <1>a, AboveIsName, PutInIsAddable
  <2>2. entries' = With(es) /\ root' = root
    BY <1>3 DEF AddParents, input
  <2>3. EntriesOK'
    <3> HIDE DEF es
    <3> QED BY <2>1, <2>2, EntriesGrow
  <2>4. InputOK'
    BY <1>a, <1>3, InputStays DEF AddParents
  <2>5. LinesOK' /\ DevsOK'
    BY <1>a, <1>3 DEF AddParents, LinesOK, DevsOK
  <2> QED BY <1>a, <1>3, <2>3, <2>4, <2>5, <1>c DEF AddParents
<1>4. CASE EndOfLinks
  <2> DEFINE more == UNION {VdbFiles(p) : p \in Vdb}
  <2>1. \A e \in more : Addable(e)
    BY <1>4, VdbFileIsAddable DEF EndOfLinks
  <2>2. entries' = With(more) /\ root' = root
    BY <1>4 DEF EndOfLinks, input
  <2>3. EntriesOK'
    <3> HIDE DEF more
    <3> QED BY <2>1, <2>2, EntriesGrow
  <2>4. InputOK'
    BY <1>a, <1>4, InputStays DEF EndOfLinks, Goto
  <2>5. /\ lines' = IF "dev" \in options THEN DevDirSetup ELSE StageMagic
        /\ phase' = IF "dev" \in options THEN "dev" ELSE "magic"
        /\ UNCHANGED <<excluded, todo, failed>> /\ phase = "links"
    BY <1>4 DEF EndOfLinks, Goto
  <2>6. DevDirSetup \in Seq(Elements(DevDirSetup)) /\ StageMagic \in Seq(Elements(StageMagic))
    BY OwnListsAssumption, ElementsOf
  <2>7. LinesOK'
    BY <1>a, <2>5, <2>6 DEF LinesOK
  <2>8. DevsOK'
    BY <2>5, DevAssumption DEF DevsOK, Elements
  <2> QED BY <1>a, <2>3, <2>4, <2>5, <2>7, <2>8, <1>c
<1>5. CASE BadLine \/ LineUnreadable
  <2>1. /\ InList /\ UNCHANGED <<input, userLists, phase, excluded, todo, entries>>
        /\ lines' = Tail(lines) /\ failed'
    BY <1>5 DEF BadLine, LineUnreadable, Read
  <2>2. EntriesOK' /\ InputOK' /\ LinesOK'
    BY <2>1, EntriesStay, InputRead, LinesRead DEF input
  <2> QED BY <1>a, <2>1, <2>2, <1>c DEF DevsOK
<1>6. CASE AddLine
  <2>1. /\ InList /\ UNCHANGED <<input, userLists, phase, excluded, todo>>
        /\ lines' = Tail(lines) /\ entries' = With(Expanded(Line))
    BY <1>6 DEF AddLine, Read
  <2>2. \A e \in Expanded(Line) : Addable(e)
    BY <1>6, LineIsAddable DEF AddLine
  <2>3. EntriesOK' /\ InputOK' /\ LinesOK'
    BY <2>1, <2>2, EntriesGrow, InputRead, LinesRead DEF input
  <2> QED BY <1>a, <1>6, <2>1, <2>3, <1>c, DevsRead
<1>7. CASE OmitLine
  <2>1. /\ InList /\ UNCHANGED <<input, userLists, phase, excluded, todo>>
        /\ lines' = Tail(lines) /\ entries' = Without(Line)
        /\ Line.ok /\ Line.type = "omit"
    BY <1>7 DEF OmitLine, Read
  <2>2. EntriesOK'
    BY <2>1, EntriesStay, EntriesShrink DEF Without, input
  <2>3. InputOK' /\ LinesOK'
    BY <2>1, InputRead, LinesRead
  <2>4. phase' # "dev"
    BY <2>1, LineRead, ParsedType, OwnLineOK DEF Line
  <2> QED BY <1>a, <2>1, <2>2, <2>3, <2>4, <1>c DEF DevsOK
<1>8. CASE EndOfDev
  <2> DEFINE more == UNION {DevsLike(x) : x \in DevDirExtend}
  <2>1. \A e \in more : Addable(e)
    BY <1>8, DevLikeIs DEF EndOfDev
  <2>2. /\ entries' = With(more) /\ root' = root /\ ~failed
        /\ lines' = StageMagic /\ phase' = "magic"
        /\ UNCHANGED <<input, userLists, excluded, todo, failed>>
    BY <1>8 DEF EndOfDev, EndOfList, Goto, input
  <2>3. EntriesOK'
    <3> HIDE DEF more
    <3> QED BY <2>1, <2>2, EntriesGrow
  <2>4. StageMagic \in Seq(Elements(StageMagic))
    BY OwnListsAssumption, ElementsOf
  <2>5. InputOK' /\ LinesOK' /\ DevsOK'
    BY <1>a, <2>2, <2>4, InputStays DEF LinesOK, DevsOK
  <2> QED BY <1>a, <2>2, <2>3, <2>5, <1>c
<1>9. CASE EndOfMagic
  <2>1. /\ entries' = Restrict(entries, DOMAIN entries \ excluded) /\ root' = root /\ ~failed
        /\ lines' = StandardStageDirs /\ phase' = "standard"
        /\ UNCHANGED <<input, userLists, excluded, todo, failed>>
    BY <1>9 DEF EndOfMagic, EndOfList, Goto, input
  <2>2. StandardStageDirs \in Seq(Elements(StandardStageDirs))
    BY OwnListsAssumption, ElementsOf
  <2>3. EntriesOK' /\ InputOK' /\ LinesOK' /\ DevsOK'
    BY <1>a, <2>1, <2>2, EntriesShrink, InputStays DEF LinesOK, DevsOK
  <2> QED BY <1>a, <2>1, <2>3, <1>c
<1>10. CASE EndOfStandard
  <2>1. /\ root' = root /\ ~failed /\ lines = <<>> /\ phase' = "parents"
        /\ todo' = {Dir(n) : n \in DOMAIN entries}
        /\ UNCHANGED <<input, userLists, entries, excluded, lines, failed>>
    BY <1>10 DEF EndOfStandard, EndOfList, Goto, input
  <2>2. todo' \subseteq Name
    BY <1>a, <2>1, AboveIsName
  <2>3. EntriesOK' /\ InputOK' /\ LinesOK' /\ DevsOK'
    BY <1>a, <2>1, EntriesStay, InputStays DEF LinesOK, DevsOK
  <2> QED BY <1>a, <2>1, <2>2, <2>3, <1>c
<1>11. CASE NextUserList
  <2>1. /\ root' = root /\ userLists # <<>>
        /\ lines' = Head(userLists) /\ userLists' = Tail(userLists) /\ phase' = "user"
        /\ UNCHANGED <<input, entries, excluded, todo, failed>>
    BY <1>11 DEF NextUserList, Goto, input
  <2>2. PICK s \in Start : /\ root = s.root /\ owns = s.owns /\ staged = s.staged
                           /\ userLists \in Seq(Elements(s.userLists))
    BY <1>a DEF InputOK
  <2>3. Tail(userLists) \in Seq(Elements(s.userLists))
        /\ Head(userLists) \in Elements(s.userLists)
    BY <2>1, <2>2, ListParts
  <2>4. \A list \in Elements(s.userLists) : list \in Seq(AllLines(s.userLists))
    <3>1. s.userLists \in Seq(Seq(AllLines(s.userLists)))
      BY StartAssumption DEF AllLines
    <3>2. Elements(s.userLists) \subseteq Seq(AllLines(s.userLists))
      BY <3>1, ElementsOf
    <3> QED BY <3>2
  <2>5. InputOK'
    BY <2>1, <2>2, <2>3, <2>4 DEF InputOK, input
  <2>6. EntriesOK' /\ LinesOK' /\ DevsOK'
    BY <1>a, <2>1, EntriesStay DEF LinesOK, DevsOK
  <2> QED BY <1>a, <2>1, <2>5, <2>6, <1>c
<1>12. CASE Finalize
  <2>1. /\ root' = root /\ phase' = "done" /\ ~failed
        /\ UNCHANGED <<input, userLists, entries, excluded, todo, lines, failed>>
    BY <1>a, <1>12 DEF Finalize, EndOfList, LinesOK, Goto, input
  <2>2. EntriesOK' /\ InputOK' /\ LinesOK' /\ DevsOK'
    BY <1>a, <2>1, EntriesStay, InputStays DEF LinesOK, DevsOK
  <2> QED BY <1>a, <2>1, <2>2, <1>c
<1>13. CASE UNCHANGED vars
  <2>1. EntriesOK'
    BY <1>13, EntriesStay DEF vars, input
  <2>2. InputOK' /\ LinesOK' /\ DevsOK'
    BY <1>a, <1>13 DEF vars, input, InputOK, LinesOK, DevsOK
  <2> QED BY <1>a, <1>13, <2>1, <2>2, <1>c DEF vars
<1>14. ASSUME \/ PackageFileUnfit \/ VdbMissing \/ ListFailed \/ Unreadable
              \/ \E l \in todo : ChainTooLong(l)
       PROVE  Basic'
  BY <1>14, <1>d DEF PackageFileUnfit, VdbMissing, ListFailed, Unreadable, ChainTooLong
<1> QED BY <1>1, <1>2, <1>3, <1>4, <1>5, <1>6, <1>7, <1>8, <1>9, <1>10, <1>11, <1>12, <1>13,
           <1>14 DEF Next

-----------------------------------------------------------------------------
(* What is above a listed name.                                            *)

\* A path above a path above another is above that.
LEMMA PathOfPath ==
    ASSUME NEW n \in Seq(STRING), NEW j \in 1 .. Len(n)
    PROVE  /\ SubSeq(n, 1, j) \in Seq(STRING) /\ Len(SubSeq(n, 1, j)) = j
           /\ SubSeq(n, 1, j) # <<>>
           /\ \A k \in 1 .. j : SubSeq(SubSeq(n, 1, j), 1, k) = SubSeq(n, 1, k)
<1>1. \A k \in 1 .. j : n[k] \in STRING
  OBVIOUS
<1>2. 1 \in Int /\ j \in Int
  OBVIOUS
<1>3. /\ SubSeq(n, 1, j) \in Seq(STRING)
      /\ Len(SubSeq(n, 1, j)) = IF 1 <= j THEN j - 1 + 1 ELSE 0
      /\ \A k \in 1 .. j - 1 + 1 : SubSeq(n, 1, j)[k] = n[1 + k - 1]
  BY <1>1, <1>2, SubSeqProperties
<1>4. \A k \in 1 .. j : k \in 1 .. j - 1 + 1 /\ 1 + k - 1 = k
  OBVIOUS
<1>5. Len(SubSeq(n, 1, j)) = j /\ \A k \in 1 .. j : SubSeq(n, 1, j)[k] = n[k]
  BY <1>3, <1>4
<1>6. ASSUME NEW k \in 1 .. j PROVE SubSeq(SubSeq(n, 1, j), 1, k) = SubSeq(n, 1, k)
  BY <1>3, <1>5
<1> QED BY <1>3, <1>5, <1>6

\* AddMissingStageDirs adds what is missing, and that only.
LEMMA ParentsAdded ==
    ASSUME NEW dir, AddParents(dir)
    PROVE  /\ DOMAIN entries' = DOMAIN entries \cup Upwards(dir)
           /\ \A n \in DOMAIN entries : entries'[n] = entries[n]
           /\ \A n \in DOMAIN entries' \ DOMAIN entries : entries'[n].type = "dir"
<1> DEFINE missing == Upwards(dir) \ DOMAIN entries
           es == {Item("dir", d, FALSE, FALSE) : d \in missing}
<1>1. entries' = With(es)
  BY DEF AddParents
<1>2. \A e \in es : ~Skipped(e) /\ e.name \in missing /\ Entry(e).type = "dir"
  BY DEF Item, Skipped, Entry, TypeOf
<1>3. \A d \in missing : \E e \in es : e.name = d
  <2> SUFFICES ASSUME NEW d \in missing PROVE \E e \in es : e.name = d
    OBVIOUS
  <2>1. Item("dir", d, FALSE, FALSE) \in es /\ Item("dir", d, FALSE, FALSE).name = d
    BY DEF Item
  <2> QED BY <2>1
<1> HIDE DEF es
<1>4. DOMAIN With(es) = DOMAIN entries \cup missing
  <2>1. \A n : n \in DOMAIN With(es) <=>
                \/ n \in DOMAIN entries
                \/ \E e \in es : ~Skipped(e) /\ e.name = n
    BY WithNames
  <2> QED BY <1>2, <1>3, <2>1
<1>5. \A n \in DOMAIN With(es) :
         \/ \E e \in es : e.name = n /\ With(es)[n] = Entry(e)
         \/ n \in DOMAIN entries /\ With(es)[n] = entries[n]
  BY WithGives
<1> QED BY <1>1, <1>2, <1>4, <1>5

LEMMA ParentsNext == Basic /\ ParentsOK /\ [Next]_vars => ParentsOK'
<1> SUFFICES ASSUME Basic, ParentsOK, [Next]_vars, phase' = "parents"
             PROVE  ParentsOK'
  BY DEF ParentsOK
<1>a. DOMAIN entries \subseteq Seq(STRING) /\ todo \subseteq Seq(STRING)
  BY NameType DEF Basic, TypeOK
<1>1. CASE EndOfStandard
  <2>1. todo' = {Dir(n) : n \in DOMAIN entries} /\ entries' = entries
    BY <1>1 DEF EndOfStandard
  <2>2. ASSUME NEW n \in DOMAIN entries, NEW k \in 1 .. Len(n)
        PROVE  SubSeq(n, 1, k) \in DOMAIN entries \/ SubSeq(n, 1, k) \in Upwards(Dir(n))
    <3>1. n \in Seq(STRING) /\ n # <<>> /\ Len(n) \in Nat
      BY <1>a
    <3>2. CASE k = Len(n)
      BY <3>1, <3>2, SubSeqFull
    <3>3. CASE k # Len(n)
      <4>1. k \in 0 .. Len(n) - 1 /\ k \in 1 .. Len(n) - 1
        BY <3>1, <3>3
      <4>2. /\ Dir(n) \in Seq(STRING) /\ Len(Dir(n)) = Len(n) - 1
            /\ SubSeq(Dir(n), 1, k) = SubSeq(n, 1, k)
        BY <3>1, <4>1, UpwardsType
      <4>3. Dir(n) # <<>> /\ k \in 1 .. Len(Dir(n))
        BY <4>1, <4>2
      <4>4. Upwards(Dir(n)) = {SubSeq(Dir(n), 1, j) : j \in 1 .. Len(Dir(n))}
        BY <4>3 DEF Upwards
      <4> QED BY <4>2, <4>3, <4>4
    <3> QED BY <3>2, <3>3
  <2> QED BY <2>1, <2>2 DEF ParentsOK
<1>2. ASSUME NEW dir \in todo, AddParents(dir) PROVE ParentsOK'
  <2>1. /\ phase = "parents" /\ todo' = todo \ {dir}
        /\ DOMAIN entries' = DOMAIN entries \cup Upwards(dir)
    BY <1>2, ParentsAdded DEF AddParents
  <2>2. \A d \in todo' : \E m \in DOMAIN entries' : d = Dir(m)
    BY <2>1 DEF ParentsOK
  <2>3. ASSUME NEW n \in DOMAIN entries', NEW k \in 1 .. Len(n)
        PROVE  \/ SubSeq(n, 1, k) \in DOMAIN entries'
               \/ \E d \in todo' : SubSeq(n, 1, k) \in Upwards(d)
    <3>1. CASE n \in DOMAIN entries
      BY <2>1, <3>1 DEF ParentsOK
    <3>2. CASE n \in Upwards(dir)
      <4>1. n # <<>>
        OBVIOUS
      <4>2. dir # <<>> /\ dir \in Seq(STRING)
        BY <1>a, <3>2, <4>1 DEF Upwards
      <4>3. Upwards(dir) = {SubSeq(dir, 1, j) : j \in 1 .. Len(dir)}
        BY <4>2 DEF Upwards
      <4>4. PICK j \in 1 .. Len(dir) : n = SubSeq(dir, 1, j)
        BY <3>2, <4>3
      <4>5. Len(n) = j /\ \A i \in 1 .. j : SubSeq(n, 1, i) = SubSeq(dir, 1, i)
        BY <4>2, <4>4, PathOfPath
      <4>6. k \in 1 .. Len(dir) /\ SubSeq(n, 1, k) = SubSeq(dir, 1, k)
        BY <4>2, <4>5
      <4> QED BY <2>1, <4>3, <4>6
    <3> QED BY <2>1, <3>1, <3>2
  <2> QED BY <2>2, <2>3 DEF ParentsOK
<1>3. CASE UNCHANGED vars
  BY <1>3 DEF ParentsOK, vars
<1>4. ASSUME ~EndOfStandard, \A d \in todo : ~AddParents(d), Next PROVE FALSE
  BY <1>4 DEF Next, Stop, Goto, Read, InList, GenerateFileList, PackageFileUnfit, RecoverLink,
              ChainTooLong, EndOfLinks, VdbMissing, BadLine, LineUnreadable, Unreadable,
              AddLine, OmitLine, ListFailed, EndOfDev, EndOfMagic, EndOfList, NextUserList, Finalize
<1> QED BY <1>1, <1>2, <1>3, <1>4

-----------------------------------------------------------------------------
(* Where listed names come from.                                           *)

NothingYet == phase = "packages" => entries = <<>>

LEMMA NothingYetNext == NothingYet /\ [Next]_vars => NothingYet'
<1> SUFFICES ASSUME NothingYet, [Next]_vars, phase' = "packages" PROVE phase = "packages" /\ UNCHANGED entries
  BY DEF NothingYet
<1>1. CASE UNCHANGED vars
  BY <1>1 DEF vars
<1>2. ASSUME Next PROVE FALSE
  BY <1>2 DEF Next, Stop, Goto, Read, InList, GenerateFileList, PackageFileUnfit, RecoverLink,
              ChainTooLong, AddParents, EndOfLinks, VdbMissing, BadLine, LineUnreadable,
              Unreadable, AddLine, OmitLine, ListFailed, EndOfDev, EndOfMagic, EndOfStandard, EndOfList, NextUserList, Finalize
<1> QED BY <1>1, <1>2

\* What is below a directory that is passed over is not among the links.
LEMMA NotReached ==
    ASSUME NEW n \in Name, NEW q \in NogoPaths, IsStrictPrefix(q, n)
    PROVE  ~Reached(n)
<1>1. n \in Seq(STRING) /\ q \in Seq(STRING) \ {<<>>}
  BY NameType, PathAssumption
<1>2. Len(q) < Len(n) /\ q = SubSeq(n, 1, Len(q)) /\ Len(q) \in Nat \ {0} /\ Len(n) \in Nat
  BY <1>1, BelowPath
<1>3. Len(q) \in 1 .. Len(n) - 1
  BY <1>2
<1> QED BY <1>2, <1>3 DEF Reached

LEMMA PrefixTransitive ==
    ASSUME NEW p \in Seq(STRING), NEW q \in Seq(STRING), NEW r \in Seq(STRING),
           IsStrictPrefix(p, q), IsStrictPrefix(q, r)
    PROVE  IsStrictPrefix(p, r)
<1>1. /\ Len(p) < Len(q) /\ p = SubSeq(q, 1, Len(p))
      /\ Len(q) < Len(r) /\ q = SubSeq(r, 1, Len(q))
  BY BelowPath
<1>2. CASE p = <<>>
  BY <1>1, <1>2 DEF IsStrictPrefix, IsPrefix
<1>3. CASE p # <<>>
  <2>1. Len(p) \in 1 .. Len(q) /\ Len(q) \in 1 .. Len(r)
    BY <1>1, <1>3
  <2>2. SubSeq(SubSeq(r, 1, Len(q)), 1, Len(p)) = SubSeq(r, 1, Len(p))
    BY <2>1, PathOfPath
  <2> QED BY <1>1, <2>2 DEF IsStrictPrefix, IsPrefix
<1> QED BY <1>2, <1>3

\* The input of the program stays.
LEMMA InputSame ==
    ASSUME [Next]_vars
    PROVE  UNCHANGED input
  BY DEF Next, vars, Stop, Goto, Read, GenerateFileList, PackageFileUnfit, RecoverLink,
         ChainTooLong, AddParents, EndOfLinks, VdbMissing, BadLine, LineUnreadable,
         Unreadable, AddLine, OmitLine, ListFailed, EndOfDev, EndOfMagic, EndOfStandard, NextUserList, Finalize

LEMMA RootSame ==
    ASSUME UNCHANGED input
    PROVE  /\ Links' = Links
           /\ \A l : UltimateTarget(l)' = UltimateTarget(l)
           /\ FilesOf(staged)' = FilesOf(staged)
<1>1. root' = root /\ owns' = owns /\ staged' = staged
  BY DEF input
<1>2. Links' = Links
  BY <1>1 DEF Links, Reached
<1>3. \A l : UltimateTarget(l)' = UltimateTarget(l)
  BY <1>1 DEF UltimateTarget, IsSymlink, Target
<1>4. FilesOf(staged)' = FilesOf(staged)
  BY <1>1 DEF FilesOf
<1> QED BY <1>2, <1>3, <1>4

\* What is added leads where it should, or is no link that is looked for.
LEMMA LinksGrow ==
    ASSUME LinksOK, UNCHANGED <<input, excluded>>,
           phase \in {"links", "dev", "magic", "standard", "parents"},
           phase' \in {"links", "dev", "magic"} => phase \in {"links", "dev", "magic"},
           NEW es, entries' = With(es),
           \A e \in es : \/ e.name \notin Links \/ ListsName(e.name)
                         \/ e.name \in FilesOf(staged) \/ TypeOf(e) # "symlink"
    PROVE  LinksOK'
<1>1. /\ Links' = Links /\ \A l : UltimateTarget(l)' = UltimateTarget(l)
      /\ FilesOf(staged)' = FilesOf(staged)
  BY RootSame
<1>2. DOMAIN entries \subseteq DOMAIN entries'
  BY WithNames
<1> SUFFICES ASSUME phase' \in {"links", "dev", "magic", "standard", "parents"},
                    NEW l \in (DOMAIN entries' \cap Links) \ FilesOf(staged),
                    entries'[l].type = "symlink", ~ListsName(l)
             PROVE  /\ UltimateTarget(l) \in DOMAIN entries'
                    /\ phase' \in {"links", "dev", "magic"} => UltimateTarget(l) \notin excluded
  BY <1>1 DEF LinksOK, LinkLeads
<1>3. ASSUME NEW e \in es, e.name = l, entries'[l] = Entry(e) PROVE FALSE
  BY <1>3 DEF Entry
<1>4. l \in DOMAIN entries /\ entries'[l] = entries[l]
  BY <1>3, WithGives
<1> QED BY <1>2, <1>4 DEF LinksOK, LinkLeads

\* What a line of the program's own lists adds.
LEMMA OwnLineAdds ==
    ASSUME Basic, InList, phase # "user", Line.ok, NEW x \in Expanded(Line)
    PROVE  /\ phase = "dev" => x.name \notin Links
           /\ phase \in {"magic", "standard"} => ListsName(x.name)
           /\ phase = "standard" => x.name = Head(lines).name
<1> DEFINE line == Head(lines)
<1>1. /\ line \in OwnLists /\ RootOK
      /\ phase = "dev" => line \in Elements(DevDirSetup)
      /\ phase = "magic" => line \in Elements(StageMagic)
      /\ phase = "standard" => line \in Elements(StandardStageDirs)
  BY LineRead, RootIsOK DEF Basic
<1>2. /\ Line.name = line.name /\ line.name \in Name
      /\ Line.wild <=> line.wild
      /\ Line.source = None
      /\ {"type", "name", "source", "wild", "glob"} \subseteq DOMAIN Line
  BY <1>1, OwnLineOK, ParsedType, OwnListsAssumption DEF Line, ParseLine
<1>3. \/ ~line.wild /\ x.name = line.name
      \/ line.wild /\ IsStrictPrefix(line.name, x.name)
  <2>1. CASE ~line.wild
    BY <1>2, <2>1, ExpandedPlain
  <2>2. CASE line.wild
    BY <1>1, <1>2, <2>2, ExpandedOwn, NameType
  <2> QED BY <2>1, <2>2
<1>4. phase = "dev" => x.name \notin Links
  <2> SUFFICES ASSUME phase = "dev" PROVE ~Reached(x.name)
    BY DEF Links
  <2>1. ~line.wild /\ \E q \in NogoPaths : IsStrictPrefix(q, line.name)
    BY <1>1, DevAssumption
  <2> QED BY <1>2, <1>3, <2>1, NotReached
<1>5. phase \in {"magic", "standard"} => ListsName(x.name)
  BY <1>1, <1>3 DEF ListsName
<1>6. phase = "standard" => x.name = line.name
  BY <1>1, <1>3, OwnListsAssumption
<1> QED BY <1>4, <1>5, <1>6

\* The program's own lists omit nothing.
LEMMA OwnOmitsNone ==
    ASSUME Basic, OmitLine
    PROVE  phase = "user"
<1>1. InList /\ Line.ok /\ Line.type = "omit"
  BY DEF OmitLine
<1>2. phase # "user" => Head(lines).type # "omit"
  BY <1>1, LineRead, OwnLineOK
<1> QED BY <1>1, <1>2, ParsedType DEF Line

LEMMA LinksNext ==
    Basic /\ NothingYet /\ OriginsOK /\ LinksOK /\ [Next]_vars => LinksOK'
<1> SUFFICES ASSUME Basic, NothingYet, OriginsOK, LinksOK, [Next]_vars,
                    phase' \in {"links", "dev", "magic", "standard", "parents"}
             PROVE  LinksOK'
  BY DEF LinksOK
<1>a. UNCHANGED input /\ \A l : UltimateTarget(l)' = UltimateTarget(l)
      /\ Links' = Links /\ FilesOf(staged)' = FilesOf(staged)
  BY InputSame, RootSame
<1>1. CASE GenerateFileList
  <2>1. phase = "packages" /\ entries' = With(PackageFiles) /\ entries = <<>>
    BY <1>1 DEF GenerateFileList, NothingYet
  <2>2. \A n \in DOMAIN entries' : n \in FilesOf(staged)
    BY <2>1, WithNames, PackageFileIs
  <2> QED BY <1>a, <2>2 DEF LinksOK
<1>2. ASSUME NEW l \in todo, RecoverLink(l) PROVE LinksOK'
  <2>1. /\ phase = "links" /\ UNCHANGED <<input, excluded, phase>>
        /\ l \notin DOMAIN entries => ~IsSymlink(UltimateTarget(l))
        /\ entries' = IF l \notin DOMAIN entries /\ LeadsToListed(l)
                      THEN With({Item("symlink", l, FALSE, FALSE)}) ELSE entries
    BY <1>2 DEF RecoverLink
  <2>2. CASE entries' = entries
    BY <1>a, <2>1, <2>2 DEF LinksOK, LinkLeads
  <2>3. CASE l \notin DOMAIN entries /\ LeadsToListed(l)
    <3> DEFINE es == {Item("symlink", l, FALSE, FALSE)}
    <3>1. \A e \in es : e.name = l
      BY DEF Item
    <3>2. entries' = With(es)
      BY <2>1, <2>3
    <3>3. UltimateTarget(l) \in DOMAIN entries /\ UltimateTarget(l) \notin excluded
      <4>1. UltimateTarget(l) \in DOMAIN entries /\ ~IsSymlink(UltimateTarget(l))
        BY <2>1, <2>3 DEF LeadsToListed
      <4>2. UltimateTarget(l) \notin Links
        BY <4>1 DEF Links, IsSymlink
      <4> QED BY <2>1, <4>1, <4>2 DEF OriginsOK
    <3> HIDE DEF es
    <3>4. \A n \in DOMAIN entries' : n = l \/ (n \in DOMAIN entries /\ entries'[n] = entries[n])
      BY <3>1, <3>2, WithGives
    <3>5. DOMAIN entries \subseteq DOMAIN entries'
      BY <3>2, WithNames
    <3> QED BY <1>a, <2>1, <3>3, <3>4, <3>5 DEF LinksOK, LinkLeads
  <2> QED BY <2>1, <2>2, <2>3
<1>3. CASE EndOfLinks
  <2> DEFINE more == UNION {VdbFiles(p) : p \in Vdb}
  <2>1. /\ phase = "links" /\ phase' \in {"dev", "magic"} /\ entries' = With(more)
        /\ UNCHANGED <<input, excluded>>
    BY <1>3 DEF EndOfLinks, Goto
  <2>2. ASSUME NEW p \in Vdb, NEW x \in VdbFiles(p) PROVE x.name \notin Links
    <3>1. x.name \in Name /\ x.name \in Seq(STRING) /\ IsStrictPrefix(VdbDir[p], x.name)
      BY VdbFileIs, RootIsOK, NameType DEF Basic, RootOK
    <3>2. p \in DOMAIN VdbDir
      BY FilesOfType DEF Vdb, Basic
    <3>3. VdbDir[p] \in Seq(STRING) /\ \E q \in NogoPaths : IsStrictPrefix(q, VdbDir[p])
      BY <3>2, PathAssumption
    <3>4. \E q \in NogoPaths : IsStrictPrefix(q, x.name)
      BY <3>1, <3>3, PrefixTransitive, PathAssumption
    <3> QED BY <3>1, <3>4, NotReached DEF Links
  <2>3. \A e \in more : e.name \notin Links
    BY <2>2
  <2> HIDE DEF more
  <2> QED BY <2>1, <2>3, LinksGrow
<1>4. CASE BadLine \/ LineUnreadable \/ OmitLine \/ EndOfStandard
  <2>1. /\ UNCHANGED <<input, excluded, entries>>
        /\ phase' \in {"links", "dev", "magic"} => phase \in {"links", "dev", "magic"}
        /\ phase \in {"dev", "magic", "standard"}
    BY <1>4, OwnOmitsNone DEF BadLine, LineUnreadable, OmitLine, EndOfStandard, EndOfList, Read, InList, Goto
  <2> QED BY <1>a, <2>1 DEF LinksOK, LinkLeads
<1>5. CASE AddLine
  <2>1. /\ InList /\ Line.ok /\ UNCHANGED <<input, excluded, phase>>
        /\ phase \in {"dev", "magic", "standard"} /\ entries' = With(Expanded(Line))
    BY <1>5 DEF AddLine, Read, InList
  <2>2. \A e \in Expanded(Line) : e.name \notin Links \/ ListsName(e.name)
    BY <2>1, OwnLineAdds
  <2> QED BY <2>1, <2>2, LinksGrow
<1>6. CASE EndOfDev
  <2> DEFINE more == UNION {DevsLike(x) : x \in DevDirExtend}
  <2>1. /\ EndOfList("dev") /\ phase = "dev" /\ phase' = "magic" /\ entries' = With(more)
        /\ UNCHANGED <<input, excluded>>
    BY <1>6 DEF EndOfDev, EndOfList, Goto
  <2>2. \A e \in more : TypeOf(e) # "symlink"
    BY <2>1, DevLikeIs DEF TypeOf
  <2> HIDE DEF more
  <2> QED BY <2>1, <2>2, LinksGrow
<1>7. CASE EndOfMagic
  <2>1. /\ phase = "magic" /\ phase' = "standard"
        /\ entries' = Restrict(entries, DOMAIN entries \ excluded)
    BY <1>7 DEF EndOfMagic, EndOfList, Goto
  <2>2. DOMAIN entries' = DOMAIN entries \ excluded
        /\ \A n \in DOMAIN entries' : entries'[n] = entries[n]
    BY <2>1 DEF Restrict
  <2> QED BY <1>a, <2>1, <2>2 DEF LinksOK, LinkLeads
<1>8. ASSUME NEW dir \in todo, AddParents(dir) PROVE LinksOK'
  <2>1. phase = "parents" /\ UNCHANGED <<input, phase, excluded>>
    BY <1>8 DEF AddParents
  <2>2. /\ DOMAIN entries \subseteq DOMAIN entries'
        /\ \A n \in DOMAIN entries' :
              \/ entries'[n].type = "dir"
              \/ n \in DOMAIN entries /\ entries'[n] = entries[n]
    BY <1>8, ParentsAdded
  <2> QED BY <1>a, <2>1, <2>2 DEF LinksOK, LinkLeads
<1>9. CASE UNCHANGED vars
  BY <1>9, <1>a DEF vars, LinksOK, LinkLeads
<1>10. ASSUME Stop \/ NextUserList \/ Finalize PROVE FALSE
  BY <1>10 DEF Stop, NextUserList, Finalize, Goto
<1> QED BY <1>1, <1>2, <1>3, <1>4, <1>5, <1>6, <1>7, <1>8, <1>9, <1>10
        DEF Next, PackageFileUnfit, ChainTooLong, VdbMissing, ListFailed, Unreadable

LEMMA OriginsNext ==
    Basic /\ OriginsOK /\ ParentsOK /\ [Next]_vars => OriginsOK'
<1> SUFFICES ASSUME Basic, OriginsOK, ParentsOK, [Next]_vars
             PROVE  OriginsOK'
  OBVIOUS
<1>a. UNCHANGED input /\ Links' = Links
  BY InputSame, RootSame
<1> DEFINE Standard(n) == \E k \in DOMAIN StandardStageDirs : StandardStageDirs[k].name = n
<1>1. CASE GenerateFileList
  <2>1. phase' = "links" /\ DOMAIN entries' \cap excluded' = {} /\ todo' = Links
    BY <1>1 DEF GenerateFileList, Goto
  <2> QED BY <1>a, <2>1 DEF OriginsOK
<1>2. ASSUME NEW l \in todo, RecoverLink(l) PROVE OriginsOK'
  <2>1. /\ phase = "links" /\ phase' = "links" /\ UNCHANGED excluded /\ todo' \subseteq todo
        /\ \/ entries' = With({Item("symlink", l, FALSE, FALSE)})
           \/ entries' = entries
    BY <1>2 DEF RecoverLink
  <2>2. DOMAIN entries' \subseteq DOMAIN entries \cup {l}
    <3> DEFINE es == {Item("symlink", l, FALSE, FALSE)}
    <3>1. \A e \in es : e.name = l
      BY DEF Item
    <3>2. entries' = With(es) \/ entries' = entries
      BY <2>1
    <3> HIDE DEF es
    <3> QED BY <3>1, <3>2, WithNames
  <2> QED BY <1>a, <2>1, <2>2 DEF OriginsOK
<1>3. CASE AddLine /\ phase = "standard"
  <2>1. /\ InList /\ Line.ok /\ UNCHANGED <<excluded, phase>>
        /\ entries' = With(Expanded(Line))
    BY <1>3 DEF AddLine, Read
  <2>2. \A e \in Expanded(Line) : Standard(e.name)
    BY <1>3, <2>1, OwnLineAdds, LineRead DEF Elements
  <2>3. \A n \in DOMAIN entries' : n \in DOMAIN entries \/ Standard(n)
    <3> HIDE DEF Standard
    <3> QED BY <2>1, <2>2, WithNames
  <2> QED BY <1>3, <2>1, <2>3 DEF OriginsOK
<1>4. CASE (BadLine \/ LineUnreadable \/ OmitLine) /\ phase = "standard"
  BY <1>4, OwnOmitsNone DEF BadLine, LineUnreadable, Read, OriginsOK
<1>5. CASE EndOfMagic
  <2>1. phase' = "standard" /\ DOMAIN entries' \cap excluded' = {}
    BY <1>5 DEF EndOfMagic, EndOfList, Goto, Restrict
  <2> QED BY <2>1 DEF OriginsOK
<1>6. CASE EndOfStandard
  BY <1>6 DEF EndOfStandard, EndOfList, Goto, OriginsOK
<1>7. ASSUME NEW dir \in todo, AddParents(dir) PROVE OriginsOK'
  <2>1. phase = "parents" /\ UNCHANGED <<phase, excluded>>
    BY <1>7 DEF AddParents
  <2>2. /\ DOMAIN entries' = DOMAIN entries \cup Upwards(dir)
        /\ \A n \in DOMAIN entries : entries'[n] = entries[n]
        /\ \A n \in DOMAIN entries' \ DOMAIN entries : entries'[n].type = "dir"
    BY <1>7, ParentsAdded
  <2>3. ASSUME NEW n \in Upwards(dir) \ DOMAIN entries
        PROVE  Below(n, DOMAIN entries') # {}
    <3>1. PICK m \in DOMAIN entries : dir = Dir(m)
      BY <2>1 DEF ParentsOK
    <3>2. m \in Seq(STRING) /\ dir \in Seq(STRING)
      BY <3>1, NameType, AboveIsName DEF Basic, TypeOK
    <3>3. m # <<>>
      BY <3>1 DEF Dir, Upwards
    <3>4. IsStrictPrefix(dir, m)
      BY <3>1, <3>2, <3>3, UpwardsType
    <3>5. CASE n = dir
      BY <2>2, <3>1, <3>4, <3>5 DEF Below
    <3>6. CASE n # dir
      <4>1. PICK k \in 1 .. Len(dir) : n = SubSeq(dir, 1, k)
        BY <3>6 DEF Upwards
      <4>2. k < Len(dir) /\ n \in Seq(STRING) /\ Len(n) = k
        BY <3>2, <3>6, <4>1, PathOfPath, SubSeqFull
      <4>3. IsStrictPrefix(n, dir)
        BY <3>2, <3>6, <4>1, <4>2 DEF IsStrictPrefix, IsPrefix
      <4>4. IsStrictPrefix(n, m)
        BY <3>2, <3>4, <4>2, <4>3, PrefixTransitive
      <4> QED BY <2>2, <4>4 DEF Below
    <3> QED BY <3>5, <3>6
  <2>4. \A n \in DOMAIN entries : Below(n, DOMAIN entries) \subseteq Below(n, DOMAIN entries')
    BY <2>2 DEF Below
  <2> QED BY <2>1, <2>2, <2>3, <2>4 DEF OriginsOK
<1>8. CASE UNCHANGED vars
  BY <1>a, <1>8 DEF vars, OriginsOK
<1>9. CASE phase' \notin {"links", "standard", "parents"}
  BY <1>9 DEF OriginsOK
<1>10. ASSUME Next, phase' \in {"links", "standard", "parents"}
       PROVE  \/ GenerateFileList \/ \E l \in todo : RecoverLink(l) \/ AddParents(l)
              \/ (AddLine \/ BadLine \/ LineUnreadable \/ OmitLine) /\ phase = "standard"
              \/ EndOfMagic \/ EndOfStandard
  BY <1>10 DEF Next, Stop, Goto, Read, InList, PackageFileUnfit, ChainTooLong, EndOfLinks,
               VdbMissing, BadLine, LineUnreadable, Unreadable, AddLine, OmitLine,
               ListFailed, EndOfDev, NextUserList,
               Finalize
<1> QED BY <1>1, <1>2, <1>3, <1>4, <1>5, <1>6, <1>7, <1>8, <1>9, <1>10

-----------------------------------------------------------------------------
(* Hard links.                                                             *)

\* The first of some places is one of them, and none comes before it.
LEMMA FirstIsFirst ==
    ASSUME NEW places \in SUBSET Nat, places # {}
    PROVE  FirstOf(places) \in places /\ \A j \in places : FirstOf(places) <= j
<1>1. \E k \in places : \A j \in places : k <= j
  BY LeastNatural
<1> QED BY <1>1 DEF FirstOf

\* The list that is sorted: all entries, each once.
LEMMA SortedIs ==
    ASSUME Basic
    PROVE  LET sorted == Only(NameOrder, DOMAIN entries)
           IN  /\ sorted \in Seq(DOMAIN entries)
               /\ \A j, k \in DOMAIN sorted : sorted[j] = sorted[k] => j = k
<1>1. NameOrder \in Seq(Name)
  BY OrderAssumption, ElementsOf DEF Name
<1>2. Only(NameOrder, DOMAIN entries) \in Seq(Name \cap DOMAIN entries)
  BY <1>1, OnlyType
<1>3. Name \cap DOMAIN entries = DOMAIN entries
  BY DEF Basic, TypeOK
<1>4. DOMAIN NameOrder = 1 .. Len(NameOrder)
  BY <1>1
<1>5. \A j, k \in 1 .. Len(NameOrder) : NameOrder[j] = NameOrder[k] => j = k
  BY <1>4, OrderAssumption
<1>6. LET sorted == Only(NameOrder, DOMAIN entries)
      IN  \A j, k \in DOMAIN sorted : sorted[j] = sorted[k] => j = k
  BY <1>1, <1>5, OnlyInjective
<1> QED BY <1>2, <1>3, <1>6

\* Of two names of a file both have its inode.
LEMMA SameInode ==
    ASSUME Basic, NEW m \in DOMAIN entries, NEW n \in DOMAIN entries, m # n,
           entries[m].type = "file", entries[m].own,
           entries[n].type = "file", entries[n].own,
           Node(m).inode = Node(n).inode
    PROVE  entries[m].inode = entries[n].inode /\ entries[m].inode # NoInode
<1>1. PICK s \in Start : root = s.root
  BY DEF Basic, InputOK
<1>2. /\ m \in DOMAIN root /\ root[m].kind = "file"
      /\ entries[m].inode = IF root[m].nlink > 1 THEN root[m].inode ELSE NoInode
      /\ n \in DOMAIN root /\ root[n].kind = "file"
      /\ entries[n].inode = IF root[n].nlink > 1 THEN root[n].inode ELSE NoInode
  BY DEF Basic, EntryOK
<1>3. root[m].inode = root[n].inode
  BY <1>2 DEF Node
<1>4. root[m].nlink > 1 /\ root[n].nlink > 1
  BY <1>1, <1>2, <1>3, StartAssumption
<1>5. root[m].inode # NoInode
  BY <1>2, RootIsOK DEF Basic, RootOK
<1> QED BY <1>2, <1>3, <1>4, <1>5

LEMMA FilesFinal ==
    ASSUME Basic, Finalize
    PROVE  HardlinksFollowFiles'
<1> DEFINE sorted == Only(NameOrder, DOMAIN entries)
           same(k) == {j \in DOMAIN sorted :
                          entries[sorted[j]].inode = entries[sorted[k]].inode}
           entry(k) == entries[sorted[k]]
           listed(k) == [name |-> sorted[k], entry |-> entries[sorted[k]]]
           linked(k) == [listed(k) EXCEPT !.entry.type = "hardlink",
                                          !.entry.target = sorted[FirstOf(same(k))]]
<1>1. /\ sorted \in Seq(DOMAIN entries)
      /\ \A j, k \in DOMAIN sorted : sorted[j] = sorted[k] => j = k
  BY SortedIs
<1>2. files' = [k \in DOMAIN sorted |->
                   IF entries[sorted[k]].inode = NoInode \/ k = FirstOf(same(k))
                   THEN listed(k) ELSE linked(k)]
  BY DEF Finalize, FixHardlinks
<1>3. root' = root
  BY DEF Finalize, input
<1>5. \A k \in DOMAIN sorted : k \in Nat /\ sorted[k] \in DOMAIN entries
  <2> HIDE DEF sorted
  <2> QED BY <1>1
<1>6. \A k \in DOMAIN sorted : EntryOK(sorted[k], entry(k))
  <2> HIDE DEF sorted
  <2> QED BY <1>5 DEF Basic
<1>7. ASSUME NEW k \in DOMAIN sorted
      PROVE  /\ FirstOf(same(k)) \in DOMAIN sorted /\ FirstOf(same(k)) \in Nat
             /\ entry(FirstOf(same(k))).inode = entry(k).inode
             /\ FirstOf(same(k)) <= k
             /\ same(FirstOf(same(k))) = same(k)
  <2>1. same(k) \in SUBSET Nat /\ k \in same(k)
    <3> HIDE DEF sorted
    <3> QED BY <1>5
  <2>2. FirstOf(same(k)) \in same(k) /\ FirstOf(same(k)) <= k
    <3> HIDE DEF same
    <3> QED BY <2>1, FirstIsFirst
  <2>3. \A j \in same(k) : same(j) = same(k)
    OBVIOUS
  <2> QED BY <1>5, <2>2, <2>3
<1>8. ASSUME NEW k \in DOMAIN sorted
      PROVE  /\ linked(k).entry.type = "hardlink"
             /\ linked(k).entry.target = sorted[FirstOf(same(k))]
             /\ linked(k).entry.source = entry(k).source
             /\ listed(k).entry = entry(k) /\ listed(k).name = sorted[k]
  <2>1. {"type", "target", "source"} \subseteq DOMAIN entry(k)
    BY <1>6 DEF EntryOK
  <2> HIDE DEF sorted, same
  <2> QED BY <2>1
<1>9. ASSUME NEW k \in DOMAIN sorted
      PROVE  /\ files'[k].entry.source = entry(k).source
             /\ \/ /\ files'[k].entry = entry(k) /\ files'[k].name = sorted[k]
                   /\ entry(k).inode = NoInode \/ k = FirstOf(same(k))
                \/ /\ files'[k].entry.type = "hardlink"
                   /\ files'[k].entry.target = sorted[FirstOf(same(k))]
                   /\ entry(k).inode # NoInode /\ k # FirstOf(same(k))
  <2> HIDE DEF sorted, same, listed, linked
  <2>1. CASE entry(k).inode = NoInode \/ k = FirstOf(same(k))
    BY <1>2, <1>8, <2>1
  <2>2. CASE ~(entry(k).inode = NoInode \/ k = FirstOf(same(k)))
    BY <1>2, <1>8, <2>2
  <2> QED BY <2>1, <2>2
<1>10. DOMAIN files' = DOMAIN sorted
  <2> HIDE DEF sorted, same, listed, linked
  <2> QED BY <1>2
\* What has an inode is a file under its own name.
<1>11. ASSUME NEW k \in DOMAIN sorted, entry(k).inode # NoInode
       PROVE  /\ entry(k).type = "file" /\ entry(k).source = sorted[k]
              /\ Node(entry(k).source).inode = entry(k).inode
  <2>1. EntryOK(sorted[k], entry(k))
    BY <1>6
  <2> HIDE DEF sorted
  <2> QED BY <1>11, <2>1 DEF EntryOK, Node
<1> HIDE DEF sorted, same, entry, listed, linked
<1>12. ASSUME NEW k \in DOMAIN files', files'[k].entry.type = "hardlink"
       PROVE  \E j \in 1 .. k - 1 :
                 /\ files'[j].name = files'[k].entry.target
                 /\ files'[j].entry.type = "file"
                 /\ Node(files'[j].entry.source).inode = Node(files'[k].entry.source).inode
  <2>1. k \in DOMAIN sorted /\ entry(k).type \in EntryType
    BY <1>6, <1>10, <1>12 DEF EntryOK
  <2>2. /\ files'[k].entry.target = sorted[FirstOf(same(k))]
        /\ entry(k).inode # NoInode /\ k # FirstOf(same(k))
    BY <1>9, <1>12, <2>1 DEF EntryType
  <2> DEFINE j == FirstOf(same(k))
  <2>3. j \in DOMAIN sorted /\ j \in Nat /\ j <= k /\ same(j) = same(k)
        /\ entry(j).inode = entry(k).inode
    BY <1>7, <2>1
  <2>4. sorted \in Seq(DOMAIN entries) /\ k \in Nat
    BY <1>1, <1>5, <2>1
  <2>5. j \in 1 .. k - 1
    BY <2>2, <2>3, <2>4
  <2>6. files'[j].entry = entry(j) /\ files'[j].name = sorted[j]
    BY <1>9, <2>3
  <2>7. /\ entry(j).type = "file"
        /\ Node(entry(j).source).inode = Node(entry(k).source).inode
    BY <1>11, <2>1, <2>2, <2>3
  <2>8. files'[k].entry.source = entry(k).source
    BY <1>9, <2>1
  <2> QED BY <2>2, <2>5, <2>6, <2>7, <2>8
<1>13. ASSUME NEW j \in DOMAIN files', NEW k \in DOMAIN files',
              files'[j].entry.type = "file", files'[k].entry.type = "file",
              files'[j].entry.own, files'[k].entry.own,
              Node(files'[j].name).inode = Node(files'[k].name).inode
       PROVE  j = k
  <2>1. j \in DOMAIN sorted /\ k \in DOMAIN sorted
    BY <1>10
  <2>2. /\ files'[j].entry = entry(j) /\ files'[j].name = sorted[j]
        /\ entry(j).inode = NoInode \/ j = FirstOf(same(j))
        /\ files'[k].entry = entry(k) /\ files'[k].name = sorted[k]
        /\ entry(k).inode = NoInode \/ k = FirstOf(same(k))
    BY <1>9, <1>13, <2>1
  <2>3. CASE sorted[j] = sorted[k]
    BY <1>1, <2>1, <2>3
  <2>4. CASE sorted[j] # sorted[k]
    <3>1. Node(sorted[j]).inode = Node(sorted[k]).inode
      BY <1>13, <2>2
    <3>2. entry(j).inode = entry(k).inode /\ entry(j).inode # NoInode
      BY <1>5, <1>13, <2>1, <2>2, <2>4, <3>1, SameInode DEF entry
    <3>3. same(j) = same(k)
      BY <2>1, <3>2 DEF same, entry
    <3> QED BY <2>2, <3>2, <3>3
  <2> QED BY <2>3, <2>4
<1> QED BY <1>3, <1>12, <1>13 DEF HardlinksFollowFiles, Node

LEMMA FilesNext ==
    Basic /\ FilesOK /\ HardlinksFollowFiles /\ [Next]_vars
        => FilesOK' /\ HardlinksFollowFiles'
<1> SUFFICES ASSUME Basic, FilesOK, HardlinksFollowFiles, [Next]_vars
             PROVE  FilesOK' /\ HardlinksFollowFiles'
  OBVIOUS
<1>1. CASE Finalize
  BY <1>1, FilesFinal DEF Finalize, Goto, FilesOK
<1>2. CASE UNCHANGED files /\ UNCHANGED input /\ (phase = "done" => phase' = "done")
  <2>1. \A n : Node(n)' = Node(n)
    BY <1>2 DEF Node, input
  <2>2. FilesOK'
    BY <1>2 DEF FilesOK
  <2>3. HardlinksFollowFiles'
    BY <1>2, <2>1 DEF HardlinksFollowFiles
  <2> QED BY <2>2, <2>3
<1>3. ~Finalize => UNCHANGED files /\ (phase = "done" => phase' = "done")
  BY DEF Next, vars, Stop, Goto, Read, InList, GenerateFileList, PackageFileUnfit,
         RecoverLink, ChainTooLong, AddParents, EndOfLinks, VdbMissing, BadLine,
         LineUnreadable, Unreadable, AddLine, OmitLine, ListFailed, EndOfDev, EndOfMagic, EndOfStandard, EndOfList, NextUserList
<1> QED BY <1>1, <1>2, <1>3, InputSame

-----------------------------------------------------------------------------
(* The theorems.                                                           *)

IInv == Basic /\ NothingYet /\ ParentsOK /\ OriginsOK /\ LinksOK /\ FilesOK
        /\ HardlinksFollowFiles

LEMMA InitIInv == Init => IInv
<1> SUFFICES ASSUME Init PROVE IInv
  OBVIOUS
<1>1. Basic
  BY BasicInit
<1>2. phase = "packages" /\ entries = <<>> /\ files = <<>>
  BY DEF Init
<1> QED BY <1>1, <1>2 DEF IInv, NothingYet, ParentsOK, OriginsOK, LinksOK, FilesOK,
                          HardlinksFollowFiles

LEMMA NextIInv == IInv /\ [Next]_vars => IInv'
  BY BasicNext, NothingYetNext, ParentsNext, OriginsNext, LinksNext, FilesNext DEF IInv

THEOREM Invariance == Spec => []IInv
  BY InitIInv, NextIInv, PTL DEF Spec

\* The list has names and types that are known, and a list in which a line was
\* in error is read to its end and not used.
THEOREM StageListType == Spec => []TypeOK
<1>1. IInv => TypeOK
  BY DEF IInv, Basic
<1> QED BY <1>1, Invariance, PTL

\* Whatever is installed and in whatever order the program's own lists and the
\* links add to the list, of what belongs to packages that are not staged only
\* standard directories, and directories above listed names, are in it.
THEOREM UnstagedOut == Spec => []UnstagedStayOut
<1>1. IInv => UnstagedStayOut
  BY DEF IInv, OriginsOK, UnstagedStayOut, Complete
<1> QED BY <1>1, Invariance, PTL

\* AddMissingStageDirs leaves no listed name without the directories above it.
THEOREM ParentsAreListed == Spec => []ParentsListed
<1>1. IInv => ParentsListed
  BY DEF IInv, ParentsOK, ParentsListed, Complete
<1> QED BY <1>1, Invariance, PTL

\* addMissingLinks finds links in any order, and ExcludeFiles takes away after
\* them; none that was found is left without the file it leads to.
THEOREM FoundLinks == Spec => []FoundLinksLead
<1>1. IInv => FoundLinksLead
  BY DEF IInv, LinksOK, LinkLeads, FoundLinksLead, Complete
<1> QED BY <1>1, Invariance, PTL

\* fixHardlinks, for whatever names the lists leave: a file is in the archive
\* once, before all hard links to it.
THEOREM HardlinksAfterFiles == Spec => []HardlinksFollowFiles
<1>1. IInv => HardlinksFollowFiles
  BY DEF IInv
<1> QED BY <1>1, Invariance, PTL
=============================================================================
