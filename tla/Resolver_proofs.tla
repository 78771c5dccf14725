--------------------------- MODULE Resolver_proofs ---------------------------
(***************************************************************************)
(* The resolution, for any packages and dependencies: nothing that is      *)
(* blocked is added; no package is added twice, which bounds the depth of  *)
(* the recursion by the number of packages; what is done solves the        *)
(* request; and without choices an error means that nothing does.  That it *)
(* ends is left to TLC.                                                    *)
(***************************************************************************)
EXTENDS Resolver, Recursion_proofs, SequenceTheorems

Adding(f) == ~f.conditional   \* a frame in which packages are added

\* The inductive invariant.  A package is added before it has a frame; the
\* frame of a choice is never the outermost, so that there is one to which its
\* choice goes.
Inv ==
    /\ TypeOK
    /\ NeverBlockedAndAdded
    /\ status = "reading" => stack = <<>> /\ added = {} /\ blocked = {}
    /\ stack # <<>> => Adding(stack[1])
    /\ \A k \in DOMAIN stack : Adding(stack[k]) => stack[k].ctx \in added \cup {Requested}

-----------------------------------------------------------------------------
(* Frames and the stack.                                                   *)

\* What Resolve has before it in the innermost frame.
LEMMA TopType ==
    ASSUME Inv, stack # <<>>
    PROVE  /\ Len(stack) \in Nat \ {0} /\ Len(stack) \in DOMAIN stack
           /\ Top \in Frame /\ Below \in Seq(Frame) /\ Len(Below) = Len(stack) - 1
           /\ \A k \in 1 .. Len(stack) - 1 : Below[k] = stack[k]
           /\ DOMAIN stack = 1 .. Len(stack)
<1>1. stack \in Seq(Frame)
  BY DEF Inv, TypeOK
<1>2. Len(stack) \in Nat \ {0} /\ DOMAIN stack = 1 .. Len(stack)
  BY <1>1
<1> HIDE DEF Frame
<1>3. Top \in Frame
  BY <1>1, <1>2 DEF Top
<1>4. /\ Below \in Seq(Frame) /\ Len(Below) = Len(stack) - 1
      /\ \A k \in 1 .. Len(stack) - 1 : Below[k] = stack[k]
  BY <1>1, <1>2 DEF Below
<1> QED BY <1>2, <1>3, <1>4

\* A dependency is no mark.
LEMMA HeadType ==
    ASSUME Inv, NEW types, "settle" \notin types, AtType(types)
    PROVE  /\ Head(Top.todo) \in Dep /\ Head(Top.todo).deps \in Seq(Dep)
           /\ Tail(Top.todo) \in Seq(Dep \cup {Settle})
           /\ Top.ctx \in Package \cup {Requested}
           /\ Candidates(Head(Top.todo), Top.ctx) \in Seq(Package)
<1>1. Top \in Frame
  BY TopType DEF AtType
<1>2. /\ Top.todo \in Seq(Dep \cup {Settle}) /\ Top.todo # <<>>
      /\ Top.ctx \in Package \cup {Requested}
  BY <1>1 DEF Frame, AtType
<1>3. Head(Top.todo) \in Dep \cup {Settle} /\ Tail(Top.todo) \in Seq(Dep \cup {Settle})
  BY <1>2
<1>4. Head(Top.todo) # Settle
  BY DEF AtType, Settle
<1> QED BY <1>2, <1>3, <1>4, DepAssumption, CandidatesAssumption

\* A step that replaces the innermost frame by one of the same package and of
\* the same kind.
LEMMA ReplaceTop ==
    ASSUME Inv, status = "running", stack # <<>>, NEW f \in Frame, f.ctx = Top.ctx,
           f.conditional = Top.conditional, stack' = Append(Below, f),
           added' = added, status' = status, depends' = depends, entered' = entered,
           blocked' \subseteq Package, blocked' \cap added = {}
    PROVE  Inv'
<1>1. /\ Len(stack) \in Nat \ {0} /\ Len(stack) \in DOMAIN stack
      /\ Below \in Seq(Frame) /\ Len(Below) = Len(stack) - 1
      /\ DOMAIN stack = 1 .. Len(stack)
      /\ \A k \in 1 .. Len(stack) - 1 : Below[k] = stack[k]
  BY TopType
<1>2. /\ stack' \in Seq(Frame) /\ DOMAIN stack' = DOMAIN stack /\ stack' # <<>>
      /\ \A k \in DOMAIN stack : stack'[k] = IF k = Len(stack) THEN f ELSE stack[k]
  <2> HIDE DEF Below, Top
  <2> QED BY <1>1
<1>3. \A k \in DOMAIN stack : stack'[k].ctx = stack[k].ctx
                              /\ stack'[k].conditional = stack[k].conditional
  BY <1>1, <1>2 DEF Top
<1>4. TypeOK'
  BY <1>2, <1>3 DEF Inv, TypeOK, Error
<1>5. \A k \in DOMAIN stack' : Adding(stack'[k]) <=> Adding(stack[k])
  BY <1>2, <1>3 DEF Adding
<1>6. 1 \in DOMAIN stack
  BY <1>1
<1> QED BY <1>2, <1>3, <1>4, <1>5, <1>6 DEF Inv, NeverBlockedAndAdded
\* A step that ends with an error.
LEMMA Failing ==
    ASSUME Inv, status = "running", status' \in Error, added' = added, stack' = stack,
           depends' = depends, entered' = entered,
           blocked' \subseteq Package, blocked' \cap added = {}
    PROVE  Inv'
<1>1. status' # "reading"
  BY DEF Error
<1> QED BY <1>1 DEF Inv, TypeOK, NeverBlockedAndAdded, Adding

\* The innermost frame with its next dependency taken off, or replaced.
LEMMA ReplaceByType ==
    ASSUME Inv, stack # <<>>, Tail(Top.todo) \in Seq(Dep \cup {Settle}),
           NEW deps \in Seq(Dep \cup {Settle})
    PROVE  /\ ReplaceBy(deps) \in Frame
           /\ ReplaceBy(deps).ctx = Top.ctx
           /\ ReplaceBy(deps).conditional = Top.conditional
           /\ ReplaceBy(deps).resolved = Top.resolved
<1>1. Top \in Frame
  BY TopType
<1>2. deps \o Tail(Top.todo) \in Seq(Dep \cup {Settle})
  OBVIOUS
<1> HIDE DEF Top
<1> QED BY <1>1, <1>2 DEF ReplaceBy, Frame

\* ... taken off.
LEMMA TakenType ==
    ASSUME Inv, stack # <<>>, Tail(Top.todo) \in Seq(Dep \cup {Settle})
    PROVE  /\ ReplaceBy(<<>>) \in Frame
           /\ ReplaceBy(<<>>).ctx = Top.ctx
           /\ ReplaceBy(<<>>).conditional = Top.conditional
           /\ ReplaceBy(<<>>).resolved = Top.resolved
<1>1. <<>> \in Seq(Dep \cup {Settle})
  OBVIOUS
<1> HIDE DEF ReplaceBy, Top, Frame
<1> QED BY <1>1, ReplaceByType

-----------------------------------------------------------------------------
(* The steps.                                                              *)

LEMMA InvInit == Init => Inv
<1> SUFFICES ASSUME Init PROVE Inv
  OBVIOUS
<1>1. PICK s \in Start :
         /\ depends = [q \in Package \cup {Requested} |->
                         IF q = Requested THEN <<>> ELSE s.depends[q]]
         /\ entered = s.entered
  BY DEF Init
<1>2. depends \in [Package \cup {Requested} -> Seq(Dep)] /\ entered \in Seq(Entered)
  BY <1>1, StartAssumption
<1> QED BY <1>2 DEF Init, Inv, TypeOK, NeverBlockedAndAdded, Error

LEMMA InvRequestFails == Inv /\ RequestFails => Inv'
<1> SUFFICES ASSUME Inv, RequestFails PROVE Inv'
  OBVIOUS
<1>1. status' \in Error
  BY DEF RequestFails, EntryError, Error
<1> QED BY <1>1 DEF Inv, TypeOK, NeverBlockedAndAdded, Adding, RequestFails, Error

\* What the user asks for are dependencies.
LEMMA EntriesType ==
    ASSUME Inv, NEW blocker \in BOOLEAN
    PROVE  Entries(blocker) \in Seq(Dep)
<1> DEFINE T == {e \in Entered : Blocks(e) = blocker /\ Meaning(e) # {}}
           those == Only(entered, T)
<1>1. those \in Seq(Entered \cap T)
  <2>1. entered \in Seq(Entered)
    BY DEF Inv, TypeOK
  <2> HIDE DEF T
  <2> QED BY <2>1, OnlyType
<1>2. \A k \in DOMAIN those : Meaning(those[k]) # {} /\ Meaning(those[k]) \subseteq Dep
  <2> SUFFICES ASSUME NEW k \in DOMAIN those
               PROVE  Meaning(those[k]) # {} /\ Meaning(those[k]) \subseteq Dep
    OBVIOUS
  <2> HIDE DEF those
  <2>1. those[k] \in Entered \cap T
    <3> HIDE DEF T
    <3> QED BY <1>1
  <2> QED BY <2>1, MeaningAssumption
<1> HIDE DEF those
<1>3. Entries(blocker) = [k \in DOMAIN those |-> CHOOSE d \in Meaning(those[k]) : TRUE]
  BY DEF Entries, those
<1>4. DOMAIN those = 1 .. Len(those) /\ Len(those) \in Nat
  BY <1>1
<1> QED BY <1>2, <1>3, <1>4

LEMMA InvReadRequest == Inv /\ ReadRequest => Inv'
<1> SUFFICES ASSUME Inv, ReadRequest PROVE Inv'
  OBVIOUS
<1> DEFINE request == Entries(TRUE) \o Entries(FALSE)
           frame == NewFrame(Requested, Append(request, Settle), FALSE, 0, 0)
<1>1. request \in Seq(Dep)
  <2> DEFINE blockers == Entries(TRUE)
             others == Entries(FALSE)
  <2>1. blockers \in Seq(Dep) /\ others \in Seq(Dep)
    BY EntriesType
  <2> HIDE DEF blockers, others
  <2>2. blockers \o others \in Seq(Dep)
    BY <2>1
  <2> QED BY <2>2 DEF blockers, others
<1> HIDE DEF request
<1>2. Append(request, Settle) \in Seq(Dep \cup {Settle})
  BY <1>1
<1>3. frame \in Frame /\ frame.ctx = Requested /\ frame.conditional = FALSE
  BY <1>2 DEF NewFrame, Frame
<1>4. stack' = <<frame>> /\ status' = "running" /\ UNCHANGED <<entered, added, blocked>>
  BY DEF ReadRequest, request
<1>5. depends' \in [Package \cup {Requested} -> Seq(Dep)]
  BY <1>1 DEF ReadRequest, Inv, TypeOK, request
<1> HIDE DEF frame
<1>6. stack' \in Seq(Frame) /\ DOMAIN stack' = {1} /\ stack'[1] = frame
  BY <1>3, <1>4
<1> QED BY <1>3, <1>4, <1>5, <1>6 DEF Inv, TypeOK, NeverBlockedAndAdded, Adding, Error

LEMMA InvTakeAtom == Inv /\ TakeAtom => Inv'
<1> SUFFICES ASSUME Inv, TakeAtom PROVE Inv'
  OBVIOUS
<1> DEFINE found == Candidates(Head(Top.todo), Top.ctx)
           replaced == ReplaceBy(<<>>)
           frame == [replaced EXCEPT !.resolved = @ \o found]
<1>1. /\ status = "running" /\ stack # <<>> /\ AtType({"atom"})
      /\ stack' = Append(Below, frame)
      /\ UNCHANGED <<depends, entered, added, blocked, status>>
  BY DEF TakeAtom, AtType
<1>2. /\ Tail(Top.todo) \in Seq(Dep \cup {Settle})
      /\ found \in Seq(Package)
  BY <1>1, HeadType
<1>3. replaced \in Frame /\ replaced.ctx = Top.ctx /\ replaced.conditional = Top.conditional
  BY <1>1, <1>2, TakenType
<1> HIDE DEF found, replaced
<1>4. frame \in Frame /\ frame.ctx = Top.ctx /\ frame.conditional = Top.conditional
  <2>1. replaced.resolved \o found \in Seq(Package)
    BY <1>2, <1>3 DEF Frame
  <2> HIDE DEF Top
  <2> QED BY <2>1, <1>3 DEF Frame
<1> HIDE DEF frame
<1>5. blocked' \subseteq Package /\ blocked' \cap added = {}
  BY <1>1 DEF Inv, TypeOK, NeverBlockedAndAdded
<1> QED BY <1>1, <1>4, <1>5, ReplaceTop

LEMMA InvTakeBlocker == Inv /\ TakeBlocker => Inv'
<1> SUFFICES ASSUME Inv, TakeBlocker PROVE Inv'
  OBVIOUS
<1> DEFINE found == Candidates(Head(Top.todo), Top.ctx)
<1>1. /\ status = "running" /\ stack # <<>> /\ AtType({"blocker"})
      /\ Elements(found) \cap added = {}
      /\ blocked' = blocked \cup Elements(found)
      /\ stack' = Append(Below, ReplaceBy(<<>>))
      /\ UNCHANGED <<depends, entered, added, status>>
  BY DEF TakeBlocker, AtType
<1>2. /\ Tail(Top.todo) \in Seq(Dep \cup {Settle})
      /\ found \in Seq(Package)
  BY <1>1, HeadType
<1>3. /\ ReplaceBy(<<>>) \in Frame /\ ReplaceBy(<<>>).ctx = Top.ctx
      /\ ReplaceBy(<<>>).conditional = Top.conditional
  BY <1>1, <1>2, TakenType
<1> HIDE DEF found
<1>4. Elements(found) \subseteq Package
  BY <1>2 DEF Elements
<1>5. blocked' \subseteq Package /\ blocked' \cap added = {}
  BY <1>1, <1>4 DEF Inv, TypeOK, NeverBlockedAndAdded
<1> QED BY <1>1, <1>3, <1>5, ReplaceTop

LEMMA InvEnter == Inv /\ (EnterAll \/ EnterCondition) => Inv'
<1> SUFFICES ASSUME Inv, EnterAll \/ EnterCondition PROVE Inv'
  OBVIOUS
<1>1. \E deps \in Seq(Dep \cup {Settle}) :
         stack' = Append(Below, ReplaceBy(deps))
  <2>1. CASE EnterAll
    <3>1. AtType({"all"}) /\ stack' = Append(Below, ReplaceBy(Append(Head(Top.todo).deps, Settle)))
      BY <2>1 DEF EnterAll
    <3>2. Head(Top.todo).deps \in Seq(Dep)
      BY <3>1, HeadType
    <3>3. Append(Head(Top.todo).deps, Settle) \in Seq(Dep \cup {Settle})
      BY <3>2
    <3> QED BY <3>1, <3>3
  <2>2. CASE EnterCondition
    <3> DEFINE d == Head(Top.todo)
               taken == IF FlagIsSet(d.flag, Top.ctx) <=> d.type = "when_use_set"
                        THEN d.deps ELSE <<>>
    <3>1. AtType({"when_use_set", "when_use_unset"}) /\ stack' = Append(Below, ReplaceBy(taken))
      BY <2>2 DEF EnterCondition
    <3>2. d.deps \in Seq(Dep)
      BY <3>1, HeadType
    <3>3. taken \in Seq(Dep \cup {Settle})
      BY <3>2
    <3> QED BY <3>1, <3>3
  <2> QED BY <2>1, <2>2
<1>2. PICK deps \in Seq(Dep \cup {Settle}) : stack' = Append(Below, ReplaceBy(deps))
  BY <1>1
<1>3. /\ status = "running" /\ stack # <<>>
      /\ UNCHANGED <<depends, entered, added, blocked, status>>
  BY DEF EnterAll, EnterCondition, AtType
<1>4. Tail(Top.todo) \in Seq(Dep \cup {Settle})
  <2>1. AtType({"all"}) \/ AtType({"when_use_set", "when_use_unset"})
    BY DEF EnterAll, EnterCondition
  <2> QED BY <2>1, HeadType
<1>5. /\ ReplaceBy(deps) \in Frame /\ ReplaceBy(deps).ctx = Top.ctx
      /\ ReplaceBy(deps).conditional = Top.conditional
  BY <1>3, <1>4, ReplaceByType
<1>6. blocked' \subseteq Package /\ blocked' \cap added = {}
  BY <1>3 DEF Inv, TypeOK, NeverBlockedAndAdded
<1> QED BY <1>2, <1>3, <1>5, <1>6, ReplaceTop

\* At the mark.
LEMMA InvSettled == Inv /\ Settled => Inv'
<1> SUFFICES ASSUME Inv, Settled PROVE Inv'
  OBVIOUS
<1>1. /\ status = "running" /\ stack # <<>> /\ Top.todo # <<>>
      /\ stack' = Append(Below, ReplaceBy(<<>>))
      /\ UNCHANGED <<depends, entered, added, blocked, status>>
  BY DEF Settled, AtSettle
<1>2. Tail(Top.todo) \in Seq(Dep \cup {Settle})
  <2>1. Top \in Frame
    BY <1>1, TopType
  <2>2. Top.todo \in Seq(Dep \cup {Settle})
    BY <2>1 DEF Frame
  <2> QED BY <1>1, <2>2
<1>3. /\ ReplaceBy(<<>>) \in Frame /\ ReplaceBy(<<>>).ctx = Top.ctx
      /\ ReplaceBy(<<>>).conditional = Top.conditional
  BY <1>1, <1>2, TakenType
<1>4. blocked' \subseteq Package /\ blocked' \cap added = {}
  BY <1>1 DEF Inv, TypeOK, NeverBlockedAndAdded
<1> QED BY <1>1, <1>3, <1>4, ReplaceTop

\* All that ends with an error.
LEMMA InvFails ==
    Inv /\ (AtomMissing \/ BlockerFails \/ FoundBlocked \/ NothingToChoose \/ DependenciesFail)
      => Inv'
<1> SUFFICES ASSUME Inv, AtomMissing \/ BlockerFails \/ FoundBlocked \/ NothingToChoose \/ DependenciesFail
             PROVE  Inv'
  OBVIOUS
<1>1. /\ status = "running" /\ status' \in Error
      /\ UNCHANGED <<depends, entered, added, stack>>
  BY DEF AtomMissing, BlockerFails, FoundBlocked, NothingToChoose, DependenciesFail,
         AtType, AtSettle, AtEnd, FailWith, Error
<1>2. blocked' \subseteq Package /\ blocked' \cap added = {}
  <2>1. CASE BlockerFails
    <3> DEFINE found == Candidates(Head(Top.todo), Top.ctx)
               marked == {found[k] : k \in {j \in DOMAIN found :
                                          \A i \in 1 .. j : found[i] \notin added}}
    <3>1. AtType({"blocker"}) /\ blocked' = blocked \cup marked
      BY <2>1 DEF BlockerFails
    <3>2. found \in Seq(Package)
      BY <3>1, HeadType
    <3> HIDE DEF found
    <3>3. marked \subseteq Package /\ marked \cap added = {}
      BY <3>2
    <3> QED BY <3>1, <3>3 DEF Inv, TypeOK, NeverBlockedAndAdded
  <2>2. CASE ~BlockerFails
    BY <2>2 DEF AtomMissing, FoundBlocked, NothingToChoose, DependenciesFail, Inv, TypeOK, NeverBlockedAndAdded
  <2> QED BY <2>1, <2>2
<1> QED BY <1>1, <1>2, Failing

\* Two elements at the end of a sequence.
LEMMA TwoMore ==
    ASSUME NEW S, NEW s \in Seq(S), NEW t \in Seq(S), Len(t) = 2
    PROVE  /\ s \o t \in Seq(S) /\ Len(s \o t) = Len(s) + 2
           /\ (s \o t)[Len(s) + 1] = t[1] /\ (s \o t)[Len(s) + 2] = t[2]
<1> DEFINE u == s \o t
           n == Len(s)
<1>1. /\ u \in Seq(S) /\ Len(u) = n + Len(t)
      /\ \A i \in 1 .. n + Len(t) : u[i] = IF i <= n THEN s[i] ELSE t[i - n]
  BY ConcatProperties, Zenon
<1>2. n \in Nat
  OBVIOUS
<1> HIDE DEF u, n
<1>3. \A k \in {1, 2} : u[n + k] = t[k]
  <2> SUFFICES ASSUME NEW k \in {1, 2} PROVE u[n + k] = t[k]
    OBVIOUS
  <2>1. n + k \in 1 .. n + Len(t) /\ ~(n + k <= n) /\ (n + k) - n = k
    BY <1>2
  <2> QED BY <1>1, <2>1
<1> QED BY <1>1, <1>2 DEF u, n

\* Two frames in the place of the innermost one.
LEMMA TwoFrames ==
    ASSUME Inv, stack # <<>>, NEW outer \in Frame, NEW choice \in Frame,
           stack' = Below \o <<outer, choice>>
    PROVE  /\ stack' \in Seq(Frame) /\ DOMAIN stack' = 1 .. Len(stack) + 1
           /\ stack' # <<>> /\ Len(stack') = Len(stack) + 1
           /\ \A k \in 1 .. Len(stack) - 1 : stack'[k] = stack[k]
           /\ stack'[Len(stack)] = outer
           /\ stack'[Len(stack) + 1] = choice
<1>1. /\ Len(stack) \in Nat \ {0} /\ Below \in Seq(Frame) /\ Len(Below) = Len(stack) - 1
      /\ \A k \in 1 .. Len(stack) - 1 : Below[k] = stack[k]
  BY TopType
<1> HIDE DEF Frame, Below
<1> DEFINE two == <<outer, choice>>
<1>2. two \in Seq(Frame) /\ Len(two) = 2 /\ two[1] = outer /\ two[2] = choice
  OBVIOUS
<1>3. stack' = Below \o two
  OBVIOUS
<1> HIDE DEF two
<1>4. /\ stack' \in Seq(Frame) /\ Len(stack') = Len(Below) + 2
      /\ stack'[Len(Below) + 1] = two[1] /\ stack'[Len(Below) + 2] = two[2]
  <2>1. Below \in Seq(Frame) /\ two \in Seq(Frame) /\ Len(two) = 2
    BY <1>1, <1>2
  <2>2. /\ Below \o two \in Seq(Frame) /\ Len(Below \o two) = Len(Below) + 2
        /\ (Below \o two)[Len(Below) + 1] = two[1]
        /\ (Below \o two)[Len(Below) + 2] = two[2]
    BY <2>1, TwoMore
  <2> QED BY <1>3, <2>2
<1>5. \A k \in 1 .. Len(stack) - 1 : stack'[k] = Below[k]
  BY <1>1, <1>2, <1>3
<1>6. Len(Below) + 1 = Len(stack) /\ Len(Below) + 2 = Len(stack) + 1
  BY <1>1
<1> QED BY <1>1, <1>2, <1>4, <1>5, <1>6

\* A frame for the choice on top of the one that is replaced.
LEMMA InvEnterChoice == Inv /\ EnterChoice => Inv'
<1> SUFFICES ASSUME Inv, EnterChoice PROVE Inv'
  OBVIOUS
<1> DEFINE d == Head(Top.todo)
           min == IF d.type = "at_most_one_of" THEN 0 ELSE 1
           max == IF d.type = "any_of" THEN Len(d.deps) ELSE 1
           outer == ReplaceBy(<<>>)
           choice == NewFrame(Top.ctx, d.deps, TRUE, min, max)
<1>1. /\ status = "running" /\ stack # <<>>
      /\ AtType({"any_of", "exactly_one_of", "at_most_one_of"})
      /\ stack' = Below \o <<outer, choice>>
      /\ UNCHANGED <<depends, entered, added, blocked, status>>
  BY DEF EnterChoice, AtType
<1>2. /\ Tail(Top.todo) \in Seq(Dep \cup {Settle}) /\ d.deps \in Seq(Dep)
      /\ Top.ctx \in Package \cup {Requested}
  BY <1>1, HeadType
<1>3. outer \in Frame /\ outer.ctx = Top.ctx /\ outer.conditional = Top.conditional
  BY <1>1, <1>2, TakenType
<1>4. choice \in Frame /\ choice.conditional
  <2>1. d.deps \in Seq(Dep \cup {Settle}) /\ min \in {0, 1} /\ max \in Nat
    BY <1>2
  <2> HIDE DEF min, max, d
  <2> QED BY <2>1, <1>2 DEF NewFrame, Frame
<1> HIDE DEF outer, choice
<1>5. /\ Len(stack) \in Nat \ {0} /\ Below \in Seq(Frame) /\ Len(Below) = Len(stack) - 1
      /\ DOMAIN stack = 1 .. Len(stack)
      /\ \A k \in 1 .. Len(stack) - 1 : Below[k] = stack[k]
  BY <1>1, TopType
<1>6. /\ stack' \in Seq(Frame) /\ DOMAIN stack' = 1 .. Len(stack) + 1 /\ stack' # <<>>
      /\ \A k \in 1 .. Len(stack) - 1 : stack'[k] = stack[k]
      /\ stack'[Len(stack)] = outer
      /\ stack'[Len(stack) + 1] = choice
  BY <1>1, <1>3, <1>4, TwoFrames
<1>7. \A k \in DOMAIN stack' : Adding(stack'[k]) =>
         k \in DOMAIN stack /\ Adding(stack[k]) /\ stack'[k].ctx = stack[k].ctx
  BY <1>3, <1>4, <1>5, <1>6 DEF Adding, Top
<1>8. Adding(stack'[1])
  <2>1. CASE Len(stack) = 1
    BY <2>1, <1>1, <1>3, <1>6 DEF Inv, Adding, Top
  <2>2. CASE Len(stack) # 1
    BY <2>2, <1>1, <1>5, <1>6 DEF Inv, Adding
  <2> QED BY <2>1, <2>2
<1>9. \A j, k \in DOMAIN stack' :
          /\ ~stack'[j].conditional /\ ~stack'[k].conditional
          /\ stack'[j].ctx = stack'[k].ctx
          => j = k
  BY <1>7 DEF Inv, TypeOK, Adding
<1>10. TypeOK'
  BY <1>1, <1>6, <1>9 DEF Inv, TypeOK, Error
<1> QED BY <1>1, <1>6, <1>7, <1>8, <1>10 DEF Inv, NeverBlockedAndAdded

\* findDependencies is called for a package that is not added yet.
NextPackage == Top.resolved[First(Pending)]
FrameOf(p) == NewFrame(p, Append(depends[p], Settle), FALSE, 0, 0)

LEMMA PackageAdded ==
    ASSUME Inv, AddPackage
    PROVE  /\ NextPackage \in Package /\ NextPackage \notin added \cup blocked
           /\ NextPackage \in Elements(Top.resolved) /\ ~Top.conditional
           /\ added' = added \cup {NextPackage}
           /\ FrameOf(NextPackage) \in Frame
           /\ FrameOf(NextPackage).ctx = NextPackage /\ Adding(FrameOf(NextPackage))
           /\ Len(stack) \in Nat \ {0} /\ DOMAIN stack = 1 .. Len(stack)
           /\ stack' \in Seq(Frame) /\ DOMAIN stack' = 1 .. Len(stack) + 1 /\ stack' # <<>>
           /\ Len(stack') = Len(stack) + 1
           /\ \A k \in DOMAIN stack : stack'[k] = stack[k]
           /\ stack'[Len(stack) + 1] = FrameOf(NextPackage)
<1> DEFINE p == NextPackage
           frame == FrameOf(p)
<1>1. /\ status = "running" /\ stack # <<>> /\ Pending # {} /\ p \notin blocked
      /\ added' = added \cup {p} /\ stack' = Append(stack, frame)
      /\ UNCHANGED <<depends, entered, blocked, status>>
  BY DEF AddPackage, AtSettle, NextPackage, FrameOf
<1>2. Top \in Frame /\ Len(stack) \in Nat \ {0} /\ DOMAIN stack = 1 .. Len(stack)
  BY <1>1, TopType
<1>3. Top.resolved \in Seq(Package)
  BY <1>2 DEF Frame
<1>4. First(Pending) \in Pending
  <2>1. Pending \subseteq Nat
    BY <1>3 DEF Pending
  <2>2. \E k \in Pending : \A j \in Pending : k <= j
    BY <1>1, <2>1, LeastNatural
  <2> QED BY <2>2 DEF First
<1>5. p \in Package /\ p \notin added /\ p \in Elements(Top.resolved) /\ ~Top.conditional
  <2> DEFINE k == First(Pending)
  <2>1. k \in Pending /\ Top.resolved[k] \notin blocked
    BY <1>1, <1>4 DEF NextPackage
  <2>2. p = Top.resolved[k]
    BY DEF NextPackage
  <2> HIDE DEF k
  <2>3. k \in DOMAIN Top.resolved /\ Top.resolved[k] \notin added /\ ~Top.conditional
    BY <2>1 DEF Pending
  <2>4. Top.resolved[k] \in Package /\ Top.resolved[k] \in Elements(Top.resolved)
    BY <1>3, <2>3 DEF Elements
  <2> QED BY <2>2, <2>3, <2>4
<1> HIDE DEF p
<1>6. frame \in Frame /\ frame.ctx = p /\ Adding(frame)
  <2>1. depends[p] \in Seq(Dep)
    BY <1>5 DEF Inv, TypeOK
  <2>2. Append(depends[p], Settle) \in Seq(Dep \cup {Settle})
    BY <2>1
  <2> QED BY <2>2, <1>5 DEF NewFrame, Frame, Adding, FrameOf
<1> HIDE DEF frame
<1>7. /\ stack' \in Seq(Frame) /\ DOMAIN stack' = 1 .. Len(stack) + 1 /\ stack' # <<>>
      /\ Len(stack') = Len(stack) + 1
      /\ \A k \in DOMAIN stack : stack'[k] = stack[k]
      /\ stack'[Len(stack) + 1] = frame
  <2> HIDE DEF Frame
  <2>1. stack \in Seq(Frame)
    BY DEF Inv, TypeOK
  <2> QED BY <1>1, <1>2, <1>6, <2>1
<1> QED BY <1>1, <1>2, <1>5, <1>6, <1>7 DEF p, frame

LEMMA InvAddPackage == Inv /\ AddPackage => Inv'
<1> SUFFICES ASSUME Inv, AddPackage PROVE Inv'
  OBVIOUS
<1> DEFINE p == NextPackage
           frame == FrameOf(p)
<1>1. status = "running" /\ UNCHANGED <<depends, entered, blocked, status>>
  BY DEF AddPackage, AtSettle
<1>2. /\ p \in Package /\ p \notin added \cup blocked /\ added' = added \cup {p}
      /\ frame \in Frame /\ frame.ctx = p /\ Adding(frame)
      /\ Len(stack) \in Nat \ {0} /\ DOMAIN stack = 1 .. Len(stack)
      /\ stack' \in Seq(Frame) /\ DOMAIN stack' = 1 .. Len(stack) + 1 /\ stack' # <<>>
      /\ \A k \in DOMAIN stack : stack'[k] = stack[k]
      /\ stack'[Len(stack) + 1] = frame
  BY PackageAdded
<1> HIDE DEF p, frame
<1>3. \A j, k \in DOMAIN stack' :
         Adding(stack'[j]) /\ Adding(stack'[k]) /\ stack'[j].ctx = stack'[k].ctx => j = k
  <2>1. \A k \in DOMAIN stack : Adding(stack[k]) => stack[k].ctx # p
    BY <1>2, RequestedAssumption DEF Inv
  <2>2. \A j, k \in DOMAIN stack :
           Adding(stack[j]) /\ Adding(stack[k]) /\ stack[j].ctx = stack[k].ctx => j = k
    BY DEF Inv, TypeOK, Adding
  <2>3. \A k \in DOMAIN stack' : k \in DOMAIN stack \/ k = Len(stack) + 1
    BY <1>2
  <2> QED BY <2>1, <2>2, <2>3, <1>2
<1>4. /\ Adding(stack'[1])
      /\ \A k \in DOMAIN stack' : Adding(stack'[k]) => stack'[k].ctx \in added' \cup {Requested}
  BY <1>1, <1>2 DEF Inv
<1>5. added' \subseteq Package /\ added' \cap blocked' = {}
  BY <1>1, <1>2 DEF Inv, TypeOK, NeverBlockedAndAdded
<1> QED BY <1>1, <1>2, <1>3, <1>4, <1>5 DEF Inv, TypeOK, NeverBlockedAndAdded, Adding, Error

-----------------------------------------------------------------------------
(* The end of a frame.                                                     *)

\* The choice goes to the frame below, which there is.
LEMMA ChoiceMade ==
    ASSUME Inv, Choose
    PROVE  /\ Len(stack) \in Nat /\ Len(stack) >= 2 /\ DOMAIN stack = 1 .. Len(stack)
           /\ Chosen \in Seq(Package)
           /\ stack' \in Seq(Frame) /\ DOMAIN stack' = 1 .. Len(stack) - 1 /\ stack' # <<>>
           /\ \A k \in 1 .. Len(stack) - 1 :
                 /\ stack'[k].ctx = stack[k].ctx
                 /\ stack'[k].conditional = stack[k].conditional
                 /\ stack'[k].min = stack[k].min /\ stack'[k].max = stack[k].max
                 /\ stack'[k].todo = stack[k].todo
                 /\ stack'[k].resolved = IF k = Len(stack) - 1 THEN stack[k].resolved \o Chosen
                                         ELSE stack[k].resolved
<1>1. /\ status = "running" /\ stack # <<>> /\ Top.conditional
      /\ stack' = [Below EXCEPT ![Len(Below)].resolved = @ \o Chosen]
  BY DEF Choose, AtEnd
<1>2. /\ Top \in Frame /\ Len(stack) \in Nat \ {0} /\ DOMAIN stack = 1 .. Len(stack)
      /\ Below \in Seq(Frame) /\ Len(Below) = Len(stack) - 1
      /\ \A k \in 1 .. Len(stack) - 1 : Below[k] = stack[k]
  BY <1>1, TopType
<1>3. Len(stack) # 1
  BY <1>1, <1>2 DEF Inv, Adding, Top
<1>4. Chosen \in Seq(Package)
  <2>1. Top.resolved \in Seq(Package) /\ Top.max \in Nat
    BY <1>2 DEF Frame
  <2> DEFINE s == Top.resolved
             n == IF Len(s) > Top.max THEN Top.max ELSE Len(s)
  <2>2. n \in 0 .. Len(s) /\ s \in Seq(Package)
    BY <2>1
  <2> HIDE DEF s, n
  <2>3. SubSeq(s, 1, n) \in Seq(Package)
    BY <2>2
  <2> QED BY <2>3 DEF s, n, Chosen
<1> DEFINE n == Len(Below)
           f == Below[n]
           frame == [f EXCEPT !.resolved = @ \o Chosen]
<1>5. n \in DOMAIN Below /\ n \in 1 .. Len(stack) - 1 /\ f \in Frame /\ f = stack[n]
  BY <1>2, <1>3
<1>6. stack' = [Below EXCEPT ![n] = frame]
  BY <1>1
<1> HIDE DEF f
<1>7. /\ frame \in Frame /\ frame.ctx = f.ctx /\ frame.conditional = f.conditional
      /\ frame.min = f.min /\ frame.max = f.max /\ frame.todo = f.todo
      /\ frame.resolved = f.resolved \o Chosen
  <2>1. f.resolved \o Chosen \in Seq(Package)
    BY <1>4, <1>5 DEF Frame
  <2> HIDE DEF Chosen
  <2> QED BY <2>1, <1>5 DEF Frame
<1> HIDE DEF frame
<1> DEFINE m == Len(stack) - 1
<1>8. Below \in [1 .. m -> Frame] /\ m \in Nat \ {0}
  BY <1>2, <1>3
<1>9. /\ stack' \in Seq(Frame) /\ DOMAIN stack' = 1 .. m /\ stack' # <<>>
      /\ \A k \in 1 .. m : stack'[k] = IF k = n THEN frame ELSE Below[k]
  <2> HIDE DEF Frame, Below, n, m
  <2>1. stack' \in [1 .. m -> Frame]
    BY <1>6, <1>7, <1>8
  <2>2. stack' \in Seq(Frame) /\ DOMAIN stack' = 1 .. m /\ stack' # <<>>
    BY <1>8, <2>1
  <2>3. \A k \in 1 .. m : stack'[k] = IF k = n THEN frame ELSE Below[k]
    BY <1>6, <1>8
  <2> QED BY <2>2, <2>3
<1>10. m = n
  BY <1>2
<1> HIDE DEF Frame, Below, n, Chosen
<1>11. \A k \in 1 .. m :
          /\ stack'[k].ctx = stack[k].ctx
          /\ stack'[k].conditional = stack[k].conditional
          /\ stack'[k].min = stack[k].min /\ stack'[k].max = stack[k].max
          /\ stack'[k].todo = stack[k].todo
          /\ stack'[k].resolved = IF k = m THEN stack[k].resolved \o Chosen ELSE stack[k].resolved
  BY <1>2, <1>5, <1>7, <1>9, <1>10
<1>12. Len(stack) >= 2
  BY <1>2, <1>3
<1> QED BY <1>2, <1>4, <1>9, <1>11, <1>12

LEMMA InvChoose == Inv /\ Choose => Inv'
<1> SUFFICES ASSUME Inv, Choose PROVE Inv'
  OBVIOUS
<1>1. /\ status = "running" /\ stack # <<>>
      /\ UNCHANGED <<depends, entered, added, blocked, status>>
  BY DEF Choose, AtEnd
<1>2. /\ Len(stack) >= 2 /\ DOMAIN stack = 1 .. Len(stack) /\ Len(stack) \in Nat
      /\ stack' \in Seq(Frame) /\ DOMAIN stack' = 1 .. Len(stack) - 1 /\ stack' # <<>>
      /\ \A k \in 1 .. Len(stack) - 1 :
            stack'[k].ctx = stack[k].ctx /\ stack'[k].conditional = stack[k].conditional
  BY ChoiceMade
<1>3. \A k \in DOMAIN stack' : /\ k \in DOMAIN stack /\ stack'[k].ctx = stack[k].ctx
                               /\ stack'[k].conditional = stack[k].conditional
  BY <1>2
<1>4. 1 \in DOMAIN stack' /\ stack # <<>>
  BY <1>1, <1>2
<1>5. TypeOK'
  BY <1>1, <1>2, <1>3 DEF Inv, TypeOK, Error
<1> QED BY <1>1, <1>3, <1>4, <1>5 DEF Inv, NeverBlockedAndAdded, Adding

LEMMA InvReturn == Inv /\ Return => Inv'
<1> SUFFICES ASSUME Inv, Return PROVE Inv'
  OBVIOUS
<1>1. /\ status = "running" /\ stack # <<>> /\ stack' = Below
      /\ status' \in {"done", "running"}
      /\ UNCHANGED <<depends, entered, added, blocked>>
  BY DEF Return, AtEnd
<1>2. /\ Len(stack) \in Nat \ {0} /\ DOMAIN stack = 1 .. Len(stack)
      /\ Below \in Seq(Frame) /\ Len(Below) = Len(stack) - 1
      /\ \A k \in 1 .. Len(stack) - 1 : Below[k] = stack[k]
  BY <1>1, TopType
<1>3. /\ stack' \in Seq(Frame) /\ DOMAIN stack' = 1 .. Len(stack) - 1
      /\ \A k \in DOMAIN stack' : stack'[k] = stack[k]
      /\ stack' # <<>> => 1 \in DOMAIN stack'
  <2> HIDE DEF Below, Frame
  <2> QED BY <1>1, <1>2
<1>4. \A k \in DOMAIN stack' : k \in DOMAIN stack /\ stack'[k] = stack[k]
  BY <1>2, <1>3
<1>5. TypeOK'
  <2>1. status' \in {"reading", "running", "done"} \cup Error
    BY <1>1
  <2> QED BY <1>1, <1>3, <1>4, <2>1 DEF Inv, TypeOK
<1>6. stack' # <<>> => Adding(stack'[1])
  BY <1>1, <1>3, <1>4 DEF Inv
<1> QED BY <1>1, <1>4, <1>5, <1>6 DEF Inv, NeverBlockedAndAdded

-----------------------------------------------------------------------------
LEMMA InvNext == Inv /\ [Next]_vars => Inv'
<1> SUFFICES ASSUME Inv, [Next]_vars PROVE Inv'
  OBVIOUS
<1>1. CASE RequestFails BY <1>1, InvRequestFails
<1>2. CASE ReadRequest BY <1>2, InvReadRequest
<1>3. CASE TakeAtom BY <1>3, InvTakeAtom
<1>4. CASE TakeBlocker BY <1>4, InvTakeBlocker
<1>5. CASE EnterAll \/ EnterCondition BY <1>5, InvEnter
<1>6. CASE EnterChoice BY <1>6, InvEnterChoice
<1>7. CASE Settled BY <1>7, InvSettled
<1>8. CASE AddPackage BY <1>8, InvAddPackage
<1>9. CASE Choose BY <1>9, InvChoose
<1>10. CASE Return BY <1>10, InvReturn
<1>11. CASE AtomMissing \/ BlockerFails \/ FoundBlocked \/ NothingToChoose \/ DependenciesFail
  BY <1>11, InvFails
<1>12. CASE UNCHANGED vars
  BY <1>12 DEF vars, Inv, TypeOK, NeverBlockedAndAdded, Adding
<1> QED BY <1>1, <1>2, <1>3, <1>4, <1>5, <1>6, <1>7, <1>8, <1>9, <1>10, <1>11, <1>12 DEF Next

LEMMA InvAlways == Spec => []Inv
BY InvInit, InvNext, PTL DEF Spec

\* The state of the resolution keeps its type, and no two frames add the same
\* package: findDependencies never comes back to a package whose dependencies
\* it is in, whatever cycles the dependencies have.
THEOREM NoPackageTwice == Spec => []TypeOK
<1>1. Inv => TypeOK
  BY DEF Inv
<1> QED BY <1>1, InvAlways, PTL

\* No package is both added and blocked: the marks that ResolveAtom and
\* ResolveEach check keep blocked packages out in every order in which they
\* are come to.
THEOREM BlockedStayOut == Spec => []NeverBlockedAndAdded
<1>1. Inv => NeverBlockedAndAdded
  BY DEF Inv
<1> QED BY <1>1, InvAlways, PTL

-----------------------------------------------------------------------------
(* Dependencies: what PackageSelection computes by going down into them.   *)

Owner == Package \cup {Requested}
PartsOf(d, q) == Selection!AllParts(q)[d]
NamesOf(d, q) == Selection!Names(q)[d]
MetBy(S, d, q) == Selection!Met(S, q)[d]

\* A function on the dependencies is given by what it is for one when it is
\* known for the parts of it.
GoesDown(V, step) ==
    /\ V # {}
    /\ step \in [[Dep -> V] -> [Dep -> V]]
    /\ \A g, h \in [Dep -> V], d \in Dep :
          (\A e \in Elements(d.deps) : g[e] = h[e]) => step[g][d] = step[h][d]

LEMMA DepRecursion ==
    ASSUME NEW V, NEW step, GoesDown(V, step)
    PROVE  \E f \in [Dep -> V] : \A d \in Dep : f[d] = step[f][d]
<1> DEFINE depth == [d \in Dep |-> Depth(d)]
           parts == [d \in Dep |-> Elements(d.deps)]
<1>1. depth \in [Dep -> Nat]
  BY DepAssumption
<1>2. \A d \in Dep : Elements(d.deps) \subseteq Dep /\ \A e \in Elements(d.deps) : Depth(e) < Depth(d)
  BY DepAssumption DEF Elements
<1>3. parts \in [Dep -> SUBSET Dep] /\ \A d \in Dep : \A e \in parts[d] : depth[e] < depth[d]
  BY <1>2
<1>4. \A g, h \in [Dep -> V], d \in Dep :
         (\A e \in parts[d] : g[e] = h[e]) => step[g][d] = step[h][d]
  BY DEF GoesDown
<1> HIDE DEF depth, parts
<1>5. Descends(Dep, V, depth, parts, step) /\ V # {}
  BY <1>1, <1>3, <1>4 DEF Descends, GoesDown
<1> QED BY <1>5, TreeFunctionExists

\* The parts of a dependency that a package has.
LEMMA PartsRule ==
    ASSUME NEW q \in Owner
    PROVE  \A d \in Dep :
              /\ PartsOf(d, q) \subseteq Dep
              /\ PartsOf(d, q) = {d} \cup IF Selection!Applies(d, q)
                                         THEN UNION {PartsOf(e, q) : e \in Elements(d.deps)}
                                         ELSE {}
<1> DEFINE V == SUBSET Dep
           val(g, d) == {d} \cup IF Selection!Applies(d, q)
                                 THEN UNION {g[e] : e \in Elements(d.deps)} ELSE {}
           step == [g \in [Dep -> V] |-> [d \in Dep |-> val(g, d)]]
           parts[d \in Dep] ==
             {d} \cup IF Selection!Applies(d, q)
                      THEN UNION {parts[e] : e \in Elements(d.deps)} ELSE {}
<1>1. Selection!AllParts(q) = parts
  BY DEF Selection!AllParts, Selection!Elements, Elements
<1>2. \A d \in Dep : Elements(d.deps) \subseteq Dep
  BY DepAssumption DEF Elements
<1>3. \A g \in [Dep -> V], d \in Dep : val(g, d) \in V
  BY <1>2
<1>4. \A g, h \in [Dep -> V], d \in Dep :
         (\A e \in Elements(d.deps) : g[e] = h[e]) => val(g, d) = val(h, d)
  OBVIOUS
<1>5. step \in [[Dep -> V] -> [Dep -> V]]
  <2> HIDE DEF val, V
  <2> QED BY <1>3
<1>6. \A g, h \in [Dep -> V], d \in Dep :
         (\A e \in Elements(d.deps) : g[e] = h[e]) => step[g][d] = step[h][d]
  <2> HIDE DEF val, V
  <2> QED BY <1>4
<1>7. PICK f \in [Dep -> V] : \A d \in Dep : f[d] = step[f][d]
  <2>1. V # {}
    OBVIOUS
  <2> HIDE DEF step, V
  <2>2. GoesDown(V, step)
    BY <2>1, <1>5, <1>6 DEF GoesDown
  <2> QED BY <2>2, DepRecursion
<1>8. f = [d \in Dep |-> val(f, d)]
  <2> HIDE DEF val, V
  <2> QED BY <1>7
<1>9. parts = [d \in Dep |-> val(parts, d)]
  BY <1>8
<1> HIDE DEF parts
<1>10. \A d \in Dep : parts[d] = val(parts, d)
  <2> HIDE DEF val
  <2> QED BY <1>9
<1>11. \A d \in Dep : parts[d] \subseteq Dep
  <2> DEFINE T == {d \in Dep : ~(parts[d] \subseteq Dep)}
             depth == [d \in Dep |-> Depth(d)]
  <2> SUFFICES ASSUME T # {} PROVE FALSE
    OBVIOUS
  <2>1. T \in SUBSET Dep /\ depth \in [Dep -> Nat]
    BY DepAssumption
  <2>2. PICK d \in T : \A e \in T : depth[d] <= depth[e]
    <3> HIDE DEF T, depth
    <3> QED BY <2>1, LeastDepth
  <2>3. \A e \in Elements(d.deps) : e \in Dep /\ e \notin T
    <3> SUFFICES ASSUME NEW e \in Elements(d.deps) PROVE e \in Dep /\ e \notin T
      OBVIOUS
    <3>1. e \in Dep /\ Depth(e) < Depth(d) /\ Depth(e) \in Nat /\ Depth(d) \in Nat
      BY DepAssumption DEF Elements
    <3> QED BY <2>2, <3>1
  <2> QED BY <2>2, <2>3, <1>10
<1> QED BY <1>1, <1>10, <1>11 DEF PartsOf

\* The packages that an atom or a blocker stands for.
LEMMA FoundIs ==
    ASSUME NEW d \in Dep, NEW q \in Owner
    PROVE  /\ Selection!Found(d, q) = Elements(Candidates(d, q))
           /\ Selection!Found(d, q) \subseteq Package
BY CandidatesAssumption DEF Selection!Found, Selection!Elements, Elements, Owner

LEMMA NamesRule ==
    ASSUME NEW q \in Owner
    PROVE  \A d \in Dep :
              NamesOf(d, q) =
                 IF d.type = "atom" THEN Selection!Found(d, q)
                 ELSE IF Selection!Applies(d, q)
                 THEN UNION {NamesOf(e, q) : e \in Elements(d.deps)} ELSE {}
<1> DEFINE V == SUBSET Package
           val(g, d) == IF d.type = "atom" THEN Selection!Found(d, q)
                        ELSE IF Selection!Applies(d, q)
                        THEN UNION {g[e] : e \in Elements(d.deps)} ELSE {}
           step == [g \in [Dep -> V] |-> [d \in Dep |-> val(g, d)]]
           names[d \in Dep] ==
             IF d.type = "atom" THEN Selection!Found(d, q)
             ELSE IF Selection!Applies(d, q)
             THEN UNION {names[e] : e \in Elements(d.deps)} ELSE {}
<1>1. Selection!Names(q) = names
  BY DEF Selection!Names, Selection!Elements, Elements
<1>2. \A d \in Dep : Elements(d.deps) \subseteq Dep /\ Selection!Found(d, q) \in V
  BY DepAssumption, FoundIs DEF Elements
<1>3. \A g \in [Dep -> V], d \in Dep : val(g, d) \in V
  BY <1>2
<1>4. \A g, h \in [Dep -> V], d \in Dep :
         (\A e \in Elements(d.deps) : g[e] = h[e]) => val(g, d) = val(h, d)
  OBVIOUS
<1>5. GoesDown(V, step)
  <2>1. V # {}
    OBVIOUS
  <2> HIDE DEF val, V
  <2>2. step \in [[Dep -> V] -> [Dep -> V]]
    BY <1>3
  <2>3. \A g, h \in [Dep -> V], d \in Dep :
           (\A e \in Elements(d.deps) : g[e] = h[e]) => step[g][d] = step[h][d]
    BY <1>4
  <2> QED BY <2>1, <2>2, <2>3 DEF GoesDown
<1>6. PICK f \in [Dep -> V] : \A d \in Dep : f[d] = step[f][d]
  <2> HIDE DEF step, V
  <2> QED BY <1>5, DepRecursion
<1>7. f = [d \in Dep |-> val(f, d)]
  <2> HIDE DEF val, V
  <2> QED BY <1>6
<1>8. names = [d \in Dep |-> val(names, d)]
  BY <1>7
<1> HIDE DEF names
<1>9. \A d \in Dep : names[d] = val(names, d)
  <2> HIDE DEF val
  <2> QED BY <1>8
<1> QED BY <1>1, <1>9 DEF NamesOf

\* When a selection meets a dependency.
LEMMA MetRule ==
    ASSUME NEW q \in Owner, NEW S
    PROVE  \A d \in Dep :
              /\ MetBy(S, d, q) \in BOOLEAN
              /\ d.type = "atom" =>
                   (MetBy(S, d, q) <=> Selection!Found(d, q) # {} /\ Selection!Found(d, q) \subseteq S)
              /\ d.type = "blocker" => (MetBy(S, d, q) <=> Selection!Found(d, q) \cap S = {})
              /\ d.type \in {"any_of", "exactly_one_of"} =>
                   (MetBy(S, d, q) <=> NamesOf(d, q) \cap S # {})
              /\ d.type = "at_most_one_of" => MetBy(S, d, q)
              /\ d.type \notin {"atom", "blocker"} \cup Selection!Choice =>
                   (MetBy(S, d, q) <=>
                      (Selection!Applies(d, q) => \A e \in Elements(d.deps) : MetBy(S, e, q)))
<1> DEFINE val(g, d) ==
             CASE d.type = "atom" -> Selection!Found(d, q) # {} /\ Selection!Found(d, q) \subseteq S
               [] d.type = "blocker" -> Selection!Found(d, q) \cap S = {}
               [] d.type \in {"any_of", "exactly_one_of"} -> Selection!Names(q)[d] \cap S # {}
               [] d.type = "at_most_one_of" -> TRUE
               [] OTHER -> Selection!Applies(d, q) => \A e \in Elements(d.deps) : g[e]
           step == [g \in [Dep -> BOOLEAN] |-> [d \in Dep |-> val(g, d)]]
           met[d \in Dep] ==
             CASE d.type = "atom" -> Selection!Found(d, q) # {} /\ Selection!Found(d, q) \subseteq S
               [] d.type = "blocker" -> Selection!Found(d, q) \cap S = {}
               [] d.type \in {"any_of", "exactly_one_of"} -> Selection!Names(q)[d] \cap S # {}
               [] d.type = "at_most_one_of" -> TRUE
               [] OTHER -> Selection!Applies(d, q) => \A e \in Elements(d.deps) : met[e]
<1>1. Selection!Met(S, q) = met
  BY DEF Selection!Met, Selection!Elements, Elements
<1>2. \A g \in [Dep -> BOOLEAN], d \in Dep :
         /\ val(g, d) \in BOOLEAN
         /\ d.type = "atom" =>
              val(g, d) = (Selection!Found(d, q) # {} /\ Selection!Found(d, q) \subseteq S)
         /\ d.type = "blocker" => val(g, d) = (Selection!Found(d, q) \cap S = {})
         /\ d.type \in {"any_of", "exactly_one_of"} =>
              val(g, d) = (Selection!Names(q)[d] \cap S # {})
         /\ d.type = "at_most_one_of" => val(g, d) = TRUE
         /\ d.type \notin {"atom", "blocker"} \cup Selection!Choice =>
              val(g, d) = (Selection!Applies(d, q) => \A e \in Elements(d.deps) : g[e])
  <2> SUFFICES ASSUME NEW g \in [Dep -> BOOLEAN], NEW d \in Dep
               PROVE  /\ val(g, d) \in BOOLEAN
                      /\ d.type = "atom" =>
                           val(g, d) = (Selection!Found(d, q) # {}
                                          /\ Selection!Found(d, q) \subseteq S)
                      /\ d.type = "blocker" => val(g, d) = (Selection!Found(d, q) \cap S = {})
                      /\ d.type \in {"any_of", "exactly_one_of"} =>
                           val(g, d) = (Selection!Names(q)[d] \cap S # {})
                      /\ d.type = "at_most_one_of" => val(g, d) = TRUE
                      /\ d.type \notin {"atom", "blocker"} \cup Selection!Choice =>
                           val(g, d) = (Selection!Applies(d, q) =>
                                          \A e \in Elements(d.deps) : g[e])
    OBVIOUS
  <2>1. CASE d.type \in {"atom", "blocker"}
    BY <2>1 DEF Selection!Choice
  <2>2. CASE d.type \in {"any_of", "exactly_one_of"}
    BY <2>2 DEF Selection!Choice
  <2>3. CASE d.type = "at_most_one_of"
    BY <2>3 DEF Selection!Choice
  <2>4. CASE d.type \notin {"atom", "blocker"} \cup Selection!Choice
    BY <2>4 DEF Selection!Choice
  <2> QED BY <2>1, <2>2, <2>3, <2>4 DEF Selection!Choice
<1>3. \A d \in Dep : Elements(d.deps) \subseteq Dep
  BY DepAssumption DEF Elements
<1>4. \A g, h \in [Dep -> BOOLEAN], d \in Dep :
         (\A e \in Elements(d.deps) : g[e] = h[e]) => val(g, d) = val(h, d)
  BY <1>2, <1>3 DEF Selection!Choice
<1>5. GoesDown(BOOLEAN, step)
  <2>1. BOOLEAN # {}
    OBVIOUS
  <2>2. \A g \in [Dep -> BOOLEAN], d \in Dep : val(g, d) \in BOOLEAN
    BY <1>2
  <2> HIDE DEF val
  <2>3. step \in [[Dep -> BOOLEAN] -> [Dep -> BOOLEAN]]
    BY <2>2
  <2>4. \A g, h \in [Dep -> BOOLEAN], d \in Dep :
           (\A e \in Elements(d.deps) : g[e] = h[e]) => step[g][d] = step[h][d]
    BY <1>4
  <2> QED BY <2>1, <2>3, <2>4 DEF GoesDown
<1>6. PICK f \in [Dep -> BOOLEAN] : \A d \in Dep : f[d] = step[f][d]
  <2> HIDE DEF step
  <2> QED BY <1>5, DepRecursion
<1>7. f = [d \in Dep |-> val(f, d)]
  <2> HIDE DEF val
  <2> QED BY <1>6
<1>8. met = [d \in Dep |-> val(met, d)]
  BY <1>7
<1> HIDE DEF met
<1>9. \A d \in Dep : met[d] = val(met, d)
  <2> HIDE DEF val
  <2> QED BY <1>8
<1>10. met \in [Dep -> BOOLEAN]
  <2>1. \A d \in Dep : val(met, d) \in BOOLEAN
    BY DEF Selection!Choice
  <2> HIDE DEF val
  <2> QED BY <1>8, <2>1
<1>11. \A d \in Dep : met[d] = MetBy(S, d, q) /\ NamesOf(d, q) = Selection!Names(q)[d]
  BY <1>1 DEF MetBy, NamesOf
<1> HIDE DEF val
<1> SUFFICES ASSUME NEW d \in Dep
             PROVE  /\ MetBy(S, d, q) \in BOOLEAN
                    /\ d.type = "atom" =>
                         MetBy(S, d, q) = (Selection!Found(d, q) # {} /\ Selection!Found(d, q) \subseteq S)
                    /\ d.type = "blocker" => MetBy(S, d, q) = (Selection!Found(d, q) \cap S = {})
                    /\ d.type \in {"any_of", "exactly_one_of"} =>
                         MetBy(S, d, q) = (NamesOf(d, q) \cap S # {})
                    /\ d.type = "at_most_one_of" => MetBy(S, d, q) = TRUE
                    /\ d.type \notin {"atom", "blocker"} \cup Selection!Choice =>
                         MetBy(S, d, q) =
                            (Selection!Applies(d, q) => \A e \in Elements(d.deps) : MetBy(S, e, q))
  OBVIOUS
<1>12. MetBy(S, d, q) = val(met, d) /\ MetBy(S, d, q) \in BOOLEAN
  BY <1>9, <1>10, <1>11
<1>13. d.type \notin {"atom", "blocker"} \cup Selection!Choice =>
          MetBy(S, d, q) =
             (Selection!Applies(d, q) => \A e \in Elements(d.deps) : MetBy(S, e, q))
  <2>1. \A e \in Elements(d.deps) : met[e] = MetBy(S, e, q)
    BY <1>3, <1>11
  <2> QED BY <1>2, <1>10, <1>12, <2>1
<1> QED BY <1>2, <1>10, <1>11, <1>12, <1>13

\* What a part of a dependency has for parts are parts of the dependency.
LEMMA PartsClosed ==
    ASSUME NEW q \in Owner
    PROVE  \A d \in Dep : \A e \in PartsOf(d, q) : PartsOf(e, q) \subseteq PartsOf(d, q)
<1> DEFINE T == {d \in Dep : \E e \in PartsOf(d, q) : ~(PartsOf(e, q) \subseteq PartsOf(d, q))}
           depth == [d \in Dep |-> Depth(d)]
<1> SUFFICES ASSUME T # {} PROVE FALSE
  OBVIOUS
<1>1. T \in SUBSET Dep /\ depth \in [Dep -> Nat]
  BY DepAssumption
<1>2. PICK d \in T : \A e \in T : depth[d] <= depth[e]
  <2> HIDE DEF T, depth
  <2> QED BY <1>1, LeastDepth
<1>3. PICK e \in PartsOf(d, q) : ~(PartsOf(e, q) \subseteq PartsOf(d, q))
  OBVIOUS
<1>4. PICK c \in Elements(d.deps) : Selection!Applies(d, q) /\ e \in PartsOf(c, q)
  BY <1>3, PartsRule
<1>5. c \in Dep /\ c \notin T
  <2>1. c \in Dep /\ Depth(c) < Depth(d) /\ Depth(c) \in Nat /\ Depth(d) \in Nat
    BY DepAssumption DEF Elements
  <2> QED BY <1>2, <2>1
<1>6. PartsOf(c, q) \subseteq PartsOf(d, q)
  BY <1>4, PartsRule
<1> QED BY <1>3, <1>4, <1>5, <1>6

-----------------------------------------------------------------------------
(* What has been done of the dependencies, and what has yet to be.         *)

Selected == added \cup {Requested}
Owed(f) == Elements(f.todo) \ {Settle}
Taken(f) == Elements(f.resolved)
InChoice == {k \in DOMAIN stack : stack[k].conditional}

\* The frames of choices are the innermost ones, all of the same package; and
\* the frames of packages end with the mark, before which no frame is left.
Shape ==
    /\ \A k \in DOMAIN stack : stack[k].ctx \in Selected
    /\ \A j, k \in DOMAIN stack : j < k /\ j \in InChoice => k \in InChoice
    /\ \A k \in InChoice : /\ k - 1 \in DOMAIN stack
                           /\ stack[k].ctx = stack[k - 1].ctx
                           /\ \/ stack[k].min = 0
                              \/ stack[k].max >= 1
                              \/ /\ k = Len(stack)
                                 /\ Owed(stack[k]) = {} /\ Taken(stack[k]) = {}
    /\ \A k \in DOMAIN stack \ InChoice :
          IF stack[k].todo = <<>> THEN k = Len(stack) /\ Taken(stack[k]) \subseteq added
          ELSE stack[k].todo[Len(stack[k].todo)] = Settle

\* All of it is asked for.
Asks ==
    \A k \in DOMAIN stack :
       /\ Owed(stack[k]) \subseteq Selection!Parts(stack[k].ctx)
       /\ Taken(stack[k]) \subseteq Selection!Asked(stack[k].ctx)

Going == status \in {"running", "done"}

\* A blocker of a package that is added is in a dependency still to be gone
\* through, or what it stands for is marked.
Coming(b, q) == \E k \in DOMAIN stack :
                   stack[k].ctx = q /\ \E d \in Owed(stack[k]) : b \in PartsOf(d, q)
Blocking ==
    Going => \A q \in Selected : \A b \in Selection!Parts(q) :
                b.type = "blocker" => Coming(b, q) \/ Selection!Found(b, q) \subseteq blocked

\* What the choice that is being made can yet come to.
Offered(f) == Taken(f) \cup UNION {NamesOf(d, f.ctx) : d \in Owed(f)}
Offer == UNION {Offered(stack[k]) : k \in InChoice}

\* A selection S in which frame k comes to a good end.
Suits(k, S) ==
    /\ S \cap blocked = {} /\ Taken(stack[k]) \subseteq S
    /\ \A d \in Owed(stack[k]) : MetBy(S, d, stack[k].ctx)
    /\ k + 1 \in InChoice /\ stack[k + 1].min = 1 => Offer \cap S # {}

\* If the frame of a package comes to a good end, its dependencies are met; and
\* they are if it has.
Promised(q) ==
    \E k \in DOMAIN stack \ InChoice :
       /\ stack[k].ctx = q
       /\ \A S \in SUBSET Package : Suits(k, S) => Selection!Meets(S, q)
Fulfilled(q) ==
    \A S \in SUBSET Package : added \subseteq S /\ S \cap blocked = {} => Selection!Meets(S, q)
Meeting == Going => \A q \in Selected : Promised(q) \/ Fulfilled(q)

\* With no choices, all that has been taken is in every selection that solves
\* the request, and nothing that has been marked is.
Needed(S) ==
    /\ status \notin {"missing", "blocks", "blocked"}
    /\ added \subseteq S /\ S \cap blocked = {}
    /\ \A k \in DOMAIN stack :
          Taken(stack[k]) \subseteq S /\ \A d \in Owed(stack[k]) : MetBy(S, d, stack[k].ctx)
Started == status \notin {"reading", "no package", "ambiguous"}
Forced ==
    Plain /\ Started => \A S \in SUBSET Package : Selection!Solves(S) => Needed(S)

\* The dependencies stay.
LEMMA SameDepends ==
    ASSUME depends' = depends
    PROVE  /\ \A q : Selection!Parts(q)' = Selection!Parts(q)
           /\ \A q : Selection!Asked(q)' = Selection!Asked(q)
           /\ \A S, q : Selection!Meets(S, q)' <=> Selection!Meets(S, q)
           /\ \A S : Selection!Solves(S)' <=> Selection!Solves(S)
           /\ Plain' <=> Plain
<1>1. \A q : Selection!Parts(q)' = Selection!Parts(q)
  BY DEF Selection!Parts
<1>2. \A q : Selection!Asked(q)' = Selection!Asked(q)
  BY <1>1 DEF Selection!Asked
<1>3. \A S, q : Selection!Meets(S, q)' <=> Selection!Meets(S, q)
  BY DEF Selection!Meets
<1>4. \A S, q : Selection!Unblocked(S, q)' <=> Selection!Unblocked(S, q)
  BY <1>1 DEF Selection!Unblocked
<1>5. \A S : Selection!Solves(S)' <=> Selection!Solves(S)
  BY <1>3, <1>4 DEF Selection!Solves
<1>6. Plain' <=> Plain
  BY <1>1 DEF Plain
<1> QED BY <1>1, <1>2, <1>3, <1>5, <1>6

\* What a package's dependencies are to it.
LEMMA PartsAre ==
    ASSUME Inv, NEW q \in Owner
    PROVE  /\ Elements(depends[q]) \subseteq Dep
           /\ Selection!Parts(q) = UNION {PartsOf(d, q) : d \in Elements(depends[q])}
           /\ \A S : Selection!Meets(S, q) <=> \A d \in Elements(depends[q]) : MetBy(S, d, q)
<1>1. depends[q] \in Seq(Dep)
  BY DEF Inv, TypeOK, Owner
<1> QED BY <1>1 DEF Selection!Parts, Selection!Meets, Selection!Elements, Elements, PartsOf, MetBy

\* Every dependency of it is a part, and so are the parts of a part.
LEMMA PartsReach ==
    ASSUME Inv, NEW q \in Owner
    PROVE  /\ Elements(depends[q]) \subseteq Selection!Parts(q)
           /\ Selection!Parts(q) \subseteq Dep
           /\ \A d \in Selection!Parts(q) : PartsOf(d, q) \subseteq Selection!Parts(q)
BY PartsAre, PartsRule, PartsClosed

-----------------------------------------------------------------------------
(* Steps of the innermost frame.                                           *)

\* The frame becomes f: of what Resolve had before it, gone is taken off and more
\* put in its place; got has been found.
Advances(f, gone, more, got) ==
    /\ status = "running" /\ stack # <<>>
    /\ f \in Frame /\ f.ctx = Top.ctx /\ f.conditional = Top.conditional
    /\ f.min = Top.min /\ f.max = Top.max
    /\ stack' = Append(Below, f)
    /\ UNCHANGED <<depends, entered, added, status>>
    /\ blocked \subseteq blocked'
    /\ gone \subseteq Owed(Top)
    /\ Owed(Top) \ gone \subseteq Owed(f) /\ Owed(f) \subseteq Owed(Top) \cup more
    /\ more \subseteq Owed(f)
    /\ Taken(f) = Taken(Top) \cup got

LEMMA AdvancedStack ==
    ASSUME Inv, NEW f, NEW gone, NEW more, NEW got, Advances(f, gone, more, got)
    PROVE  /\ Len(stack) \in Nat \ {0} /\ DOMAIN stack = 1 .. Len(stack)
           /\ Len(stack) \in DOMAIN stack
           /\ Top = stack[Len(stack)]
           /\ stack' \in Seq(Frame) /\ DOMAIN stack' = DOMAIN stack /\ Len(stack') = Len(stack)
           /\ \A k \in DOMAIN stack : stack'[k] = IF k = Len(stack) THEN f ELSE stack[k]
           /\ \A k \in DOMAIN stack : /\ stack'[k].ctx = stack[k].ctx
                                      /\ stack'[k].conditional = stack[k].conditional
                                      /\ stack'[k].min = stack[k].min
                                      /\ stack'[k].max = stack[k].max
           /\ InChoice' = InChoice /\ Selected' = Selected
<1>1. /\ Len(stack) \in Nat \ {0} /\ Below \in Seq(Frame) /\ Len(Below) = Len(stack) - 1
      /\ DOMAIN stack = 1 .. Len(stack) /\ f \in Frame /\ stack' = Append(Below, f)
      /\ \A k \in 1 .. Len(stack) - 1 : Below[k] = stack[k]
  BY TopType DEF Advances
<1>2. /\ stack' \in Seq(Frame) /\ DOMAIN stack' = DOMAIN stack /\ Len(stack') = Len(stack)
      /\ \A k \in DOMAIN stack : stack'[k] = IF k = Len(stack) THEN f ELSE stack[k]
  <2> HIDE DEF Below, Frame
  <2> QED BY <1>1
<1>3. Top = stack[Len(stack)]
  BY DEF Top
<1>4. /\ f.ctx = Top.ctx /\ f.conditional = Top.conditional
      /\ f.min = Top.min /\ f.max = Top.max /\ added' = added
  BY DEF Advances
<1>5. \A k \in DOMAIN stack : /\ stack'[k].ctx = stack[k].ctx
                              /\ stack'[k].conditional = stack[k].conditional
                              /\ stack'[k].min = stack[k].min
                              /\ stack'[k].max = stack[k].max
  BY <1>2, <1>3, <1>4
<1>6. InChoice' = InChoice
  BY <1>2, <1>5 DEF InChoice
<1>7. Selected' = Selected
  BY <1>4 DEF Selected
<1> QED BY <1>1, <1>2, <1>3, <1>5, <1>6, <1>7

LEMMA AdvanceShape ==
    ASSUME Inv, Shape, NEW f, NEW gone, NEW more, NEW got, Advances(f, gone, more, got),
           Top.conditional /\ gone = {} => more = {} /\ got = {},
           ~Top.conditional => IF f.todo = <<>> THEN Taken(f) \subseteq added
                               ELSE f.todo[Len(f.todo)] = Settle
    PROVE  Shape'
<1>1. /\ Len(stack) \in Nat \ {0} /\ DOMAIN stack = 1 .. Len(stack)
      /\ Top = stack[Len(stack)]
      /\ DOMAIN stack' = DOMAIN stack /\ Len(stack') = Len(stack)
      /\ \A k \in DOMAIN stack : stack'[k] = IF k = Len(stack) THEN f ELSE stack[k]
      /\ \A k \in DOMAIN stack : /\ stack'[k].ctx = stack[k].ctx
                                 /\ stack'[k].conditional = stack[k].conditional
                                 /\ stack'[k].min = stack[k].min
                                 /\ stack'[k].max = stack[k].max
      /\ InChoice' = InChoice /\ Selected' = Selected /\ added' = added
  <2>1. added' = added
    BY DEF Advances
  <2> QED BY <2>1, AdvancedStack
<1>2. ASSUME NEW k \in InChoice
      PROVE  \/ stack'[k].min = 0
             \/ stack'[k].max >= 1
             \/ /\ k = Len(stack)
                /\ Owed(stack'[k]) = {} /\ Taken(stack'[k]) = {}
  <2>1. k \in DOMAIN stack /\ stack[k].conditional
    BY DEF InChoice
  <2>2. CASE k = Len(stack) /\ Owed(Top) = {} /\ Taken(Top) = {}
    <3>1. gone = {} /\ Top.conditional
      BY <1>1, <2>1, <2>2 DEF Advances
    <3>2. Owed(f) = {} /\ Taken(f) = {}
      BY <2>2, <3>1 DEF Advances
    <3> QED BY <1>1, <2>1, <2>2, <3>2
  <2>3. CASE ~(k = Len(stack) /\ Owed(Top) = {} /\ Taken(Top) = {})
    BY <1>1, <2>1, <2>3 DEF Shape
  <2> QED BY <2>2, <2>3
<1>3. ASSUME NEW k \in DOMAIN stack \ InChoice
      PROVE  IF stack'[k].todo = <<>> THEN k = Len(stack) /\ Taken(stack'[k]) \subseteq added
             ELSE stack'[k].todo[Len(stack'[k].todo)] = Settle
  <2>1. CASE k = Len(stack)
    BY <2>1, <1>1 DEF InChoice
  <2>2. CASE k # Len(stack)
    BY <2>2, <1>1 DEF Shape
  <2> QED BY <2>1, <2>2
<1>4. \A k \in DOMAIN stack : stack'[k].ctx \in Selected
  BY <1>1 DEF Shape
<1>5. \A k \in InChoice : k - 1 \in DOMAIN stack /\ stack'[k].ctx = stack'[k - 1].ctx
  <2>1. \A k \in InChoice : /\ k \in DOMAIN stack /\ k - 1 \in DOMAIN stack
                            /\ stack[k].ctx = stack[k - 1].ctx
    BY DEF Shape, InChoice
  <2> QED BY <1>1, <2>1
<1>6. \A j, k \in DOMAIN stack : j < k /\ j \in InChoice => k \in InChoice
  BY DEF Shape
<1> QED BY <1>1, <1>2, <1>3, <1>4, <1>5, <1>6 DEF Shape

LEMMA AdvanceAsks ==
    ASSUME Inv, Asks, NEW f, NEW gone, NEW more, NEW got, Advances(f, gone, more, got),
           more \subseteq Selection!Parts(Top.ctx), got \subseteq Selection!Asked(Top.ctx)
    PROVE  Asks'
<1>1. /\ Len(stack) \in DOMAIN stack /\ Top = stack[Len(stack)]
      /\ DOMAIN stack' = DOMAIN stack
      /\ \A k \in DOMAIN stack : stack'[k] = IF k = Len(stack) THEN f ELSE stack[k]
      /\ f.ctx = Top.ctx /\ depends' = depends
      /\ Owed(f) \subseteq Owed(Top) \cup more /\ Taken(f) = Taken(Top) \cup got
  <2>1. /\ f.ctx = Top.ctx /\ depends' = depends
        /\ Owed(f) \subseteq Owed(Top) \cup more
        /\ Taken(f) = Taken(Top) \cup got
    BY DEF Advances
  <2> QED BY <2>1, AdvancedStack
<1>2. \A k \in DOMAIN stack : /\ Owed(stack'[k]) \subseteq Selection!Parts(stack'[k].ctx)
                              /\ Taken(stack'[k]) \subseteq Selection!Asked(stack'[k].ctx)
  BY <1>1 DEF Asks
<1>3. /\ \A q : Selection!Parts(q)' = Selection!Parts(q)
      /\ \A q : Selection!Asked(q)' = Selection!Asked(q)
  BY <1>1, SameDepends
<1> QED BY <1>1, <1>2, <1>3 DEF Asks

LEMMA AdvanceBlocking ==
    ASSUME Inv, Blocking, NEW f, NEW gone, NEW more, NEW got, Advances(f, gone, more, got),
           \A d \in gone : \A b \in PartsOf(d, Top.ctx) : b.type = "blocker" =>
              \/ \E e \in more : b \in PartsOf(e, Top.ctx)
              \/ Selection!Found(b, Top.ctx) \subseteq blocked'
    PROVE  Blocking'
<1>1. /\ Len(stack) \in DOMAIN stack /\ Top = stack[Len(stack)]
      /\ DOMAIN stack' = DOMAIN stack
      /\ \A k \in DOMAIN stack : stack'[k] = IF k = Len(stack) THEN f ELSE stack[k]
      /\ f.ctx = Top.ctx /\ depends' = depends /\ Selected' = Selected
      /\ blocked \subseteq blocked' /\ status = "running"
      /\ Owed(Top) \ gone \subseteq Owed(f) /\ more \subseteq Owed(f)
  <2>1. /\ f.ctx = Top.ctx /\ depends' = depends
        /\ blocked \subseteq blocked' /\ status = "running"
        /\ Owed(Top) \ gone \subseteq Owed(f) /\ more \subseteq Owed(f)
    BY DEF Advances
  <2> QED BY <2>1, AdvancedStack
<1>2. ASSUME NEW q \in Selected, NEW b \in Selection!Parts(q), b.type = "blocker"
      PROVE  Coming(b, q)' \/ Selection!Found(b, q) \subseteq blocked'
  <2>1. CASE Selection!Found(b, q) \subseteq blocked
    BY <1>1, <2>1
  <2>2. CASE Coming(b, q)
    <3>1. PICK k \in DOMAIN stack : stack[k].ctx = q /\ \E d \in Owed(stack[k]) : b \in PartsOf(d, q)
      BY <2>2 DEF Coming
    <3>2. PICK d \in Owed(stack[k]) : b \in PartsOf(d, q)
      BY <3>1
    <3>3. CASE k # Len(stack) \/ d \notin gone
      <4>1. stack'[k].ctx = q /\ d \in Owed(stack'[k])
        BY <1>1, <3>1, <3>3
      <4> QED BY <1>1, <3>2, <4>1 DEF Coming
    <3>4. CASE k = Len(stack) /\ d \in gone
      <4>1. Top.ctx = q
        BY <1>1, <3>1, <3>4
      <4>2. CASE \E e \in more : b \in PartsOf(e, q)
        <5>1. \E e \in Owed(stack'[k]) : b \in PartsOf(e, q)
          BY <1>1, <3>4, <4>2
        <5> QED BY <1>1, <3>4, <4>1, <5>1 DEF Coming
      <4>3. CASE Selection!Found(b, q) \subseteq blocked'
        BY <4>3
      <4> QED BY <1>2, <3>2, <3>4, <4>1, <4>2, <4>3
    <3> QED BY <3>3, <3>4
  <2> QED BY <1>1, <1>2, <2>1, <2>2 DEF Blocking, Going
<1>3. \A q : Selection!Parts(q)' = Selection!Parts(q)
  BY <1>1, SameDepends
<1> QED BY <1>1, <1>2, <1>3 DEF Blocking

LEMMA AdvanceMeeting ==
    ASSUME Inv, Shape, Meeting, NEW f, NEW gone, NEW more, NEW got,
           Advances(f, gone, more, got),
           ~Top.conditional =>
              \A S \in SUBSET Package :
                 S \cap blocked' = {} /\ got \subseteq S /\ (\A e \in more : MetBy(S, e, Top.ctx))
                 => \A d \in gone : MetBy(S, d, Top.ctx),
           Top.conditional =>
              /\ got \subseteq UNION {NamesOf(d, Top.ctx) : d \in gone}
              /\ \A e \in more : NamesOf(e, Top.ctx) \subseteq UNION {NamesOf(d, Top.ctx) : d \in gone}
    PROVE  Meeting'
<1>1. /\ Len(stack) \in DOMAIN stack /\ Top = stack[Len(stack)]
      /\ DOMAIN stack' = DOMAIN stack
      /\ \A k \in DOMAIN stack : stack'[k] = IF k = Len(stack) THEN f ELSE stack[k]
      /\ \A k \in DOMAIN stack : stack'[k].ctx = stack[k].ctx /\ stack'[k].min = stack[k].min
      /\ f.ctx = Top.ctx /\ depends' = depends /\ Selected' = Selected /\ added' = added
      /\ InChoice' = InChoice
      /\ blocked \subseteq blocked' /\ status = "running" /\ gone \subseteq Owed(Top)
      /\ Owed(Top) \ gone \subseteq Owed(f) /\ more \subseteq Owed(f)
      /\ Owed(f) \subseteq Owed(Top) \cup more
      /\ Taken(f) = Taken(Top) \cup got
      /\ DOMAIN stack = 1 .. Len(stack)
  <2>1. /\ f.ctx = Top.ctx /\ depends' = depends /\ added' = added
        /\ blocked \subseteq blocked' /\ status = "running" /\ gone \subseteq Owed(Top)
        /\ Owed(Top) \ gone \subseteq Owed(f) /\ more \subseteq Owed(f)
        /\ Owed(f) \subseteq Owed(Top) \cup more
        /\ Taken(f) = Taken(Top) \cup got
    BY DEF Advances
  <2> QED BY <2>1, AdvancedStack
<1>2. Offer' \subseteq Offer
  <2>1. ASSUME NEW k \in InChoice PROVE Offered(stack'[k]) \subseteq Offered(stack[k])
    <3>1. k \in DOMAIN stack /\ stack[k].conditional
      BY DEF InChoice
    <3>2. CASE k # Len(stack)
      BY <1>1, <3>1, <3>2
    <3>3. CASE k = Len(stack)
      <4>1. Top.conditional /\ stack[k] = Top /\ stack'[k] = f
        BY <1>1, <3>1, <3>3
      <4>2. UNION {NamesOf(d, Top.ctx) : d \in gone} \subseteq Offered(Top)
        BY <1>1 DEF Offered
      <4>3. Taken(f) \subseteq Offered(Top)
        BY <1>1, <4>1, <4>2 DEF Offered
      <4>4. \A d \in Owed(f) : NamesOf(d, Top.ctx) \subseteq Offered(Top)
        BY <1>1, <4>1, <4>2 DEF Offered
      <4>5. Offered(f) \subseteq Offered(Top)
        BY <1>1, <4>3, <4>4 DEF Offered
      <4> QED BY <4>1, <4>5
    <3> QED BY <3>2, <3>3
  <2>2. Offer' = UNION {Offered(stack'[k]) : k \in InChoice}
    BY <1>1 DEF Offer, Offered, Taken, Owed
  <2> QED BY <2>1, <2>2 DEF Offer
<1>3. ASSUME NEW k \in DOMAIN stack \ InChoice, NEW S \in SUBSET Package, Suits(k, S)'
      PROVE  Suits(k, S)
  <2>1. S \cap blocked = {} /\ S \cap blocked' = {} /\ Taken(stack'[k]) \subseteq S
    BY <1>1, <1>3 DEF Suits
  <2>2. Taken(stack[k]) \subseteq S
    BY <1>1, <2>1
  <2>3. \A d \in Owed(stack'[k]) : MetBy(S, d, stack[k].ctx)
    BY <1>1, <1>3 DEF Suits
  <2>4. \A d \in Owed(stack[k]) : MetBy(S, d, stack[k].ctx)
    <3>1. CASE k # Len(stack)
      BY <1>1, <2>3, <3>1
    <3>2. CASE k = Len(stack)
      <4>1. ~Top.conditional
        BY <1>1, <3>2 DEF InChoice
      <4>2. \A d \in Owed(f) : MetBy(S, d, Top.ctx)
        BY <1>1, <2>3, <3>2
      <4>3. got \subseteq S
        BY <1>1, <2>1, <3>2
      <4>4. \A d \in gone : MetBy(S, d, Top.ctx)
        BY <1>1, <2>1, <4>1, <4>2, <4>3
      <4> QED BY <1>1, <3>2, <4>2, <4>4
    <3> QED BY <3>1, <3>2
  <2>5. k + 1 \in InChoice /\ stack[k + 1].min = 1 => Offer \cap S # {}
    <3> SUFFICES ASSUME k + 1 \in InChoice, stack[k + 1].min = 1 PROVE Offer \cap S # {}
      OBVIOUS
    <3>1. k + 1 \in DOMAIN stack
      BY DEF InChoice
    <3>2. k + 1 \in InChoice' /\ stack'[k + 1].min = 1
      BY <1>1, <3>1
    <3>3. Offer' \cap S # {}
      BY <1>3, <3>2 DEF Suits
    <3> QED BY <1>2, <3>3
  <2> QED BY <2>1, <2>2, <2>4, <2>5 DEF Suits
<1>4. \A S, q : Selection!Meets(S, q)' <=> Selection!Meets(S, q)
  BY <1>1, SameDepends
<1>5. ASSUME NEW q \in Selected PROVE Promised(q)' \/ Fulfilled(q)'
  <2>1. CASE Promised(q)
    <3>1. PICK k \in DOMAIN stack \ InChoice :
             /\ stack[k].ctx = q
             /\ \A S \in SUBSET Package : Suits(k, S) => Selection!Meets(S, q)
      BY <2>1 DEF Promised
    <3>2. \A S \in SUBSET Package : Suits(k, S)' => Selection!Meets(S, q)'
      BY <1>3, <1>4, <3>1
    <3> QED BY <1>1, <3>1, <3>2 DEF Promised
  <2>2. CASE Fulfilled(q)
    BY <1>1, <1>4, <2>2 DEF Fulfilled
  <2> QED BY <1>1, <2>1, <2>2 DEF Meeting, Going
<1> QED BY <1>1, <1>5 DEF Meeting

LEMMA AdvanceForced ==
    ASSUME Inv, Forced, NEW f, NEW gone, NEW more, NEW got, Advances(f, gone, more, got),
           \A S \in SUBSET Package :
              S \cap blocked = {} /\ added \subseteq S /\ (\A d \in gone : MetBy(S, d, Top.ctx))
              => /\ S \cap blocked' = {} /\ got \subseteq S
                 /\ \A e \in more : MetBy(S, e, Top.ctx)
    PROVE  Forced'
<1>1. /\ Len(stack) \in DOMAIN stack /\ Top = stack[Len(stack)]
      /\ DOMAIN stack' = DOMAIN stack
      /\ \A k \in DOMAIN stack : stack'[k] = IF k = Len(stack) THEN f ELSE stack[k]
  BY AdvancedStack
<1>2. /\ f.ctx = Top.ctx /\ depends' = depends /\ added' = added
      /\ status = "running" /\ status' = status /\ gone \subseteq Owed(Top)
      /\ Owed(f) \subseteq Owed(Top) \cup more
      /\ Taken(f) = Taken(Top) \cup got
  BY DEF Advances
<1>3. ASSUME NEW S \in SUBSET Package, Needed(S) PROVE Needed(S)'
  <2>1. /\ added \subseteq S /\ S \cap blocked = {}
        /\ \A k \in DOMAIN stack :
              Taken(stack[k]) \subseteq S /\ \A d \in Owed(stack[k]) : MetBy(S, d, stack[k].ctx)
    BY <1>3 DEF Needed
  <2>2. /\ S \cap blocked' = {} /\ got \subseteq S
        /\ \A e \in more : MetBy(S, e, Top.ctx)
    BY <1>1, <1>2, <2>1
  <2>3. \A k \in DOMAIN stack :
           /\ Taken(stack'[k]) \subseteq S
           /\ \A d \in Owed(stack'[k]) : MetBy(S, d, stack'[k].ctx)
    BY <1>1, <1>2, <2>1, <2>2
  <2> QED BY <1>1, <1>2, <2>1, <2>2, <2>3 DEF Needed
<1>4. Started
  BY <1>1, <1>2 DEF Started
<1>5. Plain' <=> Plain
  BY <1>1, <1>2, SameDepends
<1>6. \A S : Selection!Solves(S)' <=> Selection!Solves(S)
  BY <1>1, <1>2, SameDepends
<1> QED BY <1>3, <1>4, <1>5, <1>6 DEF Forced

\* The elements of sequences.
LEMMA ElementsOf ==
    ASSUME NEW S, NEW s \in Seq(S), NEW t \in Seq(S)
    PROVE  /\ Elements(s) \subseteq S
           /\ Elements(s \o t) = Elements(s) \cup Elements(t)
           /\ s # <<>> => /\ Elements(s) = {Head(s)} \cup Elements(Tail(s))
                          /\ Tail(s) # <<>> => Tail(s)[Len(Tail(s))] = s[Len(s)]
                          /\ Tail(s) = <<>> => Head(s) = s[Len(s)]
           /\ t # <<>> => (s \o t) # <<>> /\ (s \o t)[Len(s \o t)] = t[Len(t)]
<1>1. Elements(s) \subseteq S
  BY DEF Elements
<1>2. Elements(s \o t) = Elements(s) \cup Elements(t)
  <2>1. /\ s \o t \in Seq(S) /\ Len(s \o t) = Len(s) + Len(t)
        /\ \A i \in 1 .. Len(s) + Len(t) :
              (s \o t)[i] = IF i <= Len(s) THEN s[i] ELSE t[i - Len(s)]
    BY ConcatProperties
  <2>2. Len(s) \in Nat /\ Len(t) \in Nat /\ DOMAIN s = 1 .. Len(s) /\ DOMAIN t = 1 .. Len(t)
    OBVIOUS
  <2> DEFINE u == s \o t
  <2>3. DOMAIN u = 1 .. Len(s) + Len(t)
    BY <2>1, <2>2
  <2>4. \A i \in DOMAIN s : i \in DOMAIN u /\ u[i] = s[i]
    BY <2>1, <2>2, <2>3
  <2>5. \A i \in DOMAIN t : Len(s) + i \in DOMAIN u /\ u[Len(s) + i] = t[i]
    <3> SUFFICES ASSUME NEW i \in DOMAIN t PROVE Len(s) + i \in DOMAIN u /\ u[Len(s) + i] = t[i]
      OBVIOUS
    <3>1. Len(s) + i \in 1 .. Len(s) + Len(t) /\ ~(Len(s) + i <= Len(s)) /\ (Len(s) + i) - Len(s) = i
      BY <2>2
    <3> QED BY <2>1, <2>3, <3>1
  <2>6. \A i \in DOMAIN u : u[i] \in Elements(s) \cup Elements(t)
    <3> SUFFICES ASSUME NEW i \in DOMAIN u PROVE u[i] \in Elements(s) \cup Elements(t)
      OBVIOUS
    <3>1. i \in DOMAIN s \/ i - Len(s) \in DOMAIN t
      BY <2>2, <2>3
    <3> QED BY <2>1, <2>2, <2>3, <3>1 DEF Elements
  <2> HIDE DEF u
  <2>7. Elements(u) = Elements(s) \cup Elements(t)
    BY <2>4, <2>5, <2>6 DEF Elements
  <2> QED BY <2>7 DEF u
<1>3. ASSUME s # <<>>
      PROVE  /\ Elements(s) = {Head(s)} \cup Elements(Tail(s))
             /\ Tail(s) # <<>> => Tail(s)[Len(Tail(s))] = s[Len(s)]
             /\ Tail(s) = <<>> => Head(s) = s[Len(s)]
  <2>1. /\ Len(s) \in Nat \ {0} /\ DOMAIN s = 1 .. Len(s) /\ Head(s) = s[1]
        /\ Tail(s) \in Seq(S) /\ Len(Tail(s)) = Len(s) - 1 /\ DOMAIN Tail(s) = 1 .. Len(s) - 1
        /\ \A i \in 1 .. Len(s) - 1 : Tail(s)[i] = s[i + 1]
    BY <1>3
  <2>2. \A i \in DOMAIN s : i = 1 \/ (i - 1 \in DOMAIN Tail(s) /\ Tail(s)[i - 1] = s[i])
    BY <2>1
  <2>3. \A i \in DOMAIN Tail(s) : i + 1 \in DOMAIN s /\ Tail(s)[i] = s[i + 1]
    BY <2>1
  <2>4. Elements(s) = {Head(s)} \cup Elements(Tail(s))
    <3> DEFINE rest == Tail(s)
    <3>1. 1 \in DOMAIN s
      BY <2>1
    <3> HIDE DEF rest
    <3>2. /\ Head(s) = s[1]
          /\ \A i \in DOMAIN s : i = 1 \/ (i - 1 \in DOMAIN rest /\ rest[i - 1] = s[i])
          /\ \A i \in DOMAIN rest : i + 1 \in DOMAIN s /\ rest[i] = s[i + 1]
      BY <2>1, <2>2, <2>3 DEF rest
    <3>3. Elements(s) \subseteq {s[1]} \cup Elements(rest)
      BY <3>2 DEF Elements
    <3>4. Elements(rest) \subseteq Elements(s)
      BY <3>2 DEF Elements
    <3>5. s[1] \in Elements(s)
      BY <3>1 DEF Elements
    <3> QED BY <3>2, <3>3, <3>4, <3>5 DEF rest
  <2>5. Tail(s) # <<>> => Tail(s)[Len(Tail(s))] = s[Len(s)]
    <3>1. Tail(s) # <<>> => Len(s) - 1 \in 1 .. Len(s) - 1
      BY <2>1
    <3> QED BY <2>1, <3>1
  <2>6. Tail(s) = <<>> => Len(s) = 1
    <3> DEFINE rest == Tail(s)
    <3>1. Len(rest) = Len(s) - 1 /\ Len(s) \in Nat
      BY <2>1
    <3> HIDE DEF rest
    <3>2. rest = <<>> => Len(s) = 1
      BY <3>1
    <3> QED BY <3>2 DEF rest
  <2> QED BY <2>1, <2>4, <2>5, <2>6
<1>4. ASSUME t # <<>> PROVE (s \o t) # <<>> /\ (s \o t)[Len(s \o t)] = t[Len(t)]
  <2>1. /\ s \o t \in Seq(S) /\ Len(s \o t) = Len(s) + Len(t)
        /\ \A i \in 1 .. Len(s) + Len(t) :
              (s \o t)[i] = IF i <= Len(s) THEN s[i] ELSE t[i - Len(s)]
    BY ConcatProperties
  <2>2. Len(s) \in Nat /\ Len(t) \in Nat \ {0}
    BY <1>4
  <2>3. Len(s) + Len(t) \in 1 .. Len(s) + Len(t) /\ ~(Len(s) + Len(t) <= Len(s))
        /\ (Len(s) + Len(t)) - Len(s) = Len(t)
    BY <2>2
  <2>4. (s \o t)[Len(s \o t)] = t[Len(t)]
    BY <2>1, <2>3
  <2>5. Len(s \o t) # 0
    BY <2>1, <2>2
  <2> QED BY <2>4, <2>5
<1> QED BY <1>1, <1>2, <1>3, <1>4

LEMMA OneMore ==
    ASSUME NEW S, NEW s \in Seq(S), NEW e \in S
    PROVE  /\ Append(s, e) \in Seq(S) /\ Append(s, e) # <<>>
           /\ Elements(Append(s, e)) = Elements(s) \cup {e}
           /\ Append(s, e)[Len(Append(s, e))] = e
<1> DEFINE u == Append(s, e)
<1>1. /\ u \in Seq(S) /\ Len(u) = Len(s) + 1 /\ Len(s) \in Nat
      /\ DOMAIN s = 1 .. Len(s) /\ DOMAIN u = 1 .. Len(s) + 1
      /\ \A i \in 1 .. Len(s) : u[i] = s[i]
      /\ u[Len(s) + 1] = e
  OBVIOUS
<1> HIDE DEF u
<1>2. u # <<>>
  BY <1>1
<1>3. \A i \in DOMAIN u : i \in DOMAIN s \/ i = Len(s) + 1
  BY <1>1
<1>4. \A i \in DOMAIN s : i \in DOMAIN u /\ u[i] = s[i]
  BY <1>1
<1>5. Len(s) + 1 \in DOMAIN u
  BY <1>1
<1>6. Elements(u) = Elements(s) \cup {e}
  BY <1>1, <1>3, <1>4, <1>5 DEF Elements
<1> QED BY <1>1, <1>2, <1>6 DEF u

\* Resolve takes the next off and puts deps in its place.
LEMMA Advancing ==
    ASSUME Inv, Shape, status = "running", stack # <<>>, Top.todo # <<>>,
           NEW f \in Frame, f.ctx = Top.ctx, f.conditional = Top.conditional,
           f.min = Top.min, f.max = Top.max,
           NEW deps \in Seq(Dep \cup {Settle}), f.todo = deps \o Tail(Top.todo),
           NEW got, Taken(f) = Taken(Top) \cup got,
           stack' = Append(Below, f),
           UNCHANGED <<depends, entered, added, status>>, blocked \subseteq blocked'
    PROVE  /\ Advances(f, {Head(Top.todo)} \ {Settle}, Elements(deps) \ {Settle}, got)
           /\ ~Top.conditional =>
                 IF Tail(Top.todo) = <<>> THEN Head(Top.todo) = Settle
                 ELSE f.todo # <<>> /\ f.todo[Len(f.todo)] = Settle
<1> DEFINE S == Dep \cup {Settle}
           todo == Top.todo
<1>1. todo \in Seq(S) /\ todo # <<>>
  <2>1. Top \in Frame
    BY TopType
  <2> QED BY <2>1 DEF Frame
<1>2. Tail(todo) \in Seq(S)
  BY <1>1
<1>3. Len(stack) \in DOMAIN stack /\ Top = stack[Len(stack)]
  BY TopType DEF Top
<1>4. ~Top.conditional => todo[Len(todo)] = Settle
  BY <1>1, <1>3 DEF Shape, InChoice
<1>5. /\ Elements(todo) = {Head(todo)} \cup Elements(Tail(todo))
      /\ Tail(todo) # <<>> => Tail(todo)[Len(Tail(todo))] = todo[Len(todo)]
      /\ Tail(todo) = <<>> => Head(todo) = todo[Len(todo)]
  <2> HIDE DEF S, todo
  <2> QED BY <1>1, ElementsOf
<1>6. /\ Elements(f.todo) = Elements(deps) \cup Elements(Tail(todo))
      /\ Tail(todo) # <<>> => f.todo # <<>> /\ f.todo[Len(f.todo)] = Tail(todo)[Len(Tail(todo))]
  <2> DEFINE tail == Tail(todo)
  <2>1. deps \in Seq(S) /\ tail \in Seq(S) /\ f.todo = deps \o tail
    BY <1>2
  <2> HIDE DEF S, tail
  <2>2. /\ Elements(deps \o tail) = Elements(deps) \cup Elements(tail)
        /\ tail # <<>> => (deps \o tail) # <<>> /\ (deps \o tail)[Len(deps \o tail)] = tail[Len(tail)]
    BY <2>1, ElementsOf
  <2> QED BY <2>1, <2>2 DEF tail
<1>7. Advances(f, {Head(todo)} \ {Settle}, Elements(deps) \ {Settle}, got)
  BY <1>5, <1>6 DEF Advances, Owed
<1> QED BY <1>4, <1>5, <1>6, <1>7

Account == Shape /\ Asks /\ Blocking /\ Meeting /\ Forced

\* The dependency that Resolve comes to.
LEMMA HeadIs ==
    ASSUME Inv, Account, NEW types, "settle" \notin types, AtType(types)
    PROVE  /\ status = "running" /\ stack # <<>> /\ Top.todo # <<>>
           /\ Head(Top.todo) \in Dep /\ {Head(Top.todo)} \ {Settle} = {Head(Top.todo)}
           /\ Head(Top.todo).type \in types
           /\ Tail(Top.todo) \in Seq(Dep \cup {Settle})
           /\ Top.ctx \in Owner /\ Top.ctx \in Selected
           /\ Head(Top.todo) \in Selection!Parts(Top.ctx)
           /\ Elements(Head(Top.todo).deps) \subseteq Dep
           /\ Settle \notin Elements(Head(Top.todo).deps)
           /\ Settle.type = "settle"
<1>1. status = "running" /\ stack # <<>> /\ Top.todo # <<>> /\ Head(Top.todo).type \in types
  BY DEF AtType
<1>2. /\ Head(Top.todo) \in Dep /\ Tail(Top.todo) \in Seq(Dep \cup {Settle})
      /\ Head(Top.todo).deps \in Seq(Dep) /\ Top.ctx \in Owner
  BY HeadType DEF Owner
<1>3. Settle.type = "settle" /\ Head(Top.todo) # Settle
  BY <1>1 DEF Settle
<1>4. Len(stack) \in DOMAIN stack /\ Top = stack[Len(stack)] /\ Top \in Frame
  BY <1>1, TopType DEF Top
<1>5. Head(Top.todo) \in Owed(Top)
  <2>1. Top.todo \in Seq(Dep \cup {Settle})
    BY <1>4 DEF Frame
  <2> DEFINE todo == Top.todo
  <2>2. todo \in Seq(Dep \cup {Settle}) /\ todo # <<>> /\ Head(todo) # Settle
    BY <1>1, <1>3, <2>1
  <2> HIDE DEF todo
  <2>3. Head(todo) \in Elements(todo)
    BY <2>2 DEF Elements
  <2> QED BY <2>2, <2>3 DEF Owed, todo
<1>6. Top.ctx \in Selected /\ Head(Top.todo) \in Selection!Parts(Top.ctx)
  BY <1>4, <1>5 DEF Account, Shape, Asks
<1>7. Elements(Head(Top.todo).deps) \subseteq Dep /\ Settle \notin Elements(Head(Top.todo).deps)
  <2>1. Elements(Head(Top.todo).deps) \subseteq Dep
    BY <1>2 DEF Elements
  <2>2. Settle \notin Dep
    BY <1>3, DepAssumption
  <2> QED BY <2>1, <2>2
<1> QED BY <1>1, <1>2, <1>3, <1>6, <1>7

\* Atoms and blockers have no parts.
LEMMA LeafIs ==
    ASSUME NEW d \in Dep, d.type \in {"atom", "blocker"}, NEW q \in Owner
    PROVE  /\ PartsOf(d, q) = {d}
           /\ NamesOf(d, q) = IF d.type = "atom" THEN Selection!Found(d, q) ELSE {}
<1>1. Elements(d.deps) = {}
  BY DepAssumption DEF Elements
<1> QED BY <1>1, PartsRule, NamesRule

\* What an atom stands for has been found.
LEMMA AccountTakeAtom ==
    ASSUME Inv, Account, TakeAtom
    PROVE  Account'
<1> DEFINE d == Head(Top.todo)
           q == Top.ctx
           found == Candidates(d, q)
           got == Selection!Found(d, q)
           f == [ReplaceBy(<<>>) EXCEPT !.resolved = @ \o found]
<1>1. /\ AtType({"atom"})
      /\ (found # <<>> \/ Top.conditional)
      /\ stack' = Append(Below, f)
      /\ UNCHANGED <<depends, entered, added, blocked, status>>
  BY DEF TakeAtom
<1>2. /\ status = "running" /\ stack # <<>> /\ Top.todo # <<>>
      /\ d \in Dep /\ {d} \ {Settle} = {d} /\ d.type = "atom" /\ q \in Owner
      /\ d \in Selection!Parts(q) /\ Tail(Top.todo) \in Seq(Dep \cup {Settle})
  <2> DEFINE types == {"atom"}
  <2>1. "settle" \notin types /\ AtType(types) /\ \A t \in types : t = "atom"
    BY <1>1
  <2> HIDE DEF types
  <2> QED BY <2>1, HeadIs
<1>3. found \in Seq(Package) /\ Elements(found) = got /\ got \subseteq Package
  BY <1>2, CandidatesAssumption, FoundIs DEF Owner
<1>4. Top \in Frame
  BY <1>2, TopType
<1>5. /\ f \in Frame /\ f.ctx = q /\ f.conditional = Top.conditional
      /\ f.min = Top.min /\ f.max = Top.max
      /\ f.todo = <<>> \o Tail(Top.todo) /\ f.resolved = Top.resolved \o found
  <2>1. /\ Top.resolved \in Seq(Package) /\ Top.resolved \o found \in Seq(Package)
        /\ <<>> \o Tail(Top.todo) \in Seq(Dep \cup {Settle})
    BY <1>2, <1>3, <1>4 DEF Frame
  <2> HIDE DEF Top, found
  <2> QED BY <1>4, <2>1 DEF ReplaceBy, Frame
<1>6. Taken(f) = Taken(Top) \cup got
  <2>1. Top.resolved \in Seq(Package)
    BY <1>4 DEF Frame
  <2>2. Elements(Top.resolved \o found) = Elements(Top.resolved) \cup Elements(found)
    BY <1>3, <2>1, ElementsOf
  <2> QED BY <1>3, <1>5, <2>2 DEF Taken
<1>7. Elements(<<>>) \ {Settle} = {}
  BY DEF Elements
<1> HIDE DEF f, d, q, found
<1>8. /\ Advances(f, {d}, {}, got)
      /\ ~Top.conditional => f.todo # <<>> /\ f.todo[Len(f.todo)] = Settle
  <2>1. <<>> \in Seq(Dep \cup {Settle})
    OBVIOUS
  <2>2. /\ Advances(f, {Head(Top.todo)} \ {Settle}, Elements(<<>>) \ {Settle}, got)
        /\ ~Top.conditional =>
              IF Tail(Top.todo) = <<>> THEN Head(Top.todo) = Settle
              ELSE f.todo # <<>> /\ f.todo[Len(f.todo)] = Settle
    BY <1>1, <1>2, <1>5, <1>6, <2>1, Advancing DEF Account, q
  <2> QED BY <1>2, <1>7, <2>2 DEF d
<1>9. Shape'
  BY <1>8, AdvanceShape DEF Account
<1>10. Asks'
  <2>1. got \subseteq Selection!Asked(Top.ctx)
    BY <1>2 DEF Selection!Asked, q
  <2> QED BY <1>8, <2>1, AdvanceAsks DEF Account
<1>11. Blocking'
  <2>1. PartsOf(d, Top.ctx) = {d}
    BY <1>2, LeafIs DEF q
  <2> QED BY <1>2, <1>8, <2>1, AdvanceBlocking DEF Account
<1>12. Meeting'
  <2>1. got = NamesOf(d, Top.ctx)
    BY <1>2, LeafIs DEF q
  <2>2. ~Top.conditional => got # {}
    <3>1. found # <<>> => found[1] \in Elements(found)
      BY <1>3 DEF Elements
    <3> QED BY <1>1, <1>3, <3>1
  <2>3. \A S : MetBy(S, d, Top.ctx) <=> got # {} /\ got \subseteq S
    BY <1>2, MetRule DEF q
  <2> QED BY <1>8, <2>1, <2>2, <2>3, AdvanceMeeting DEF Account
<1>13. Forced'
  <2>1. \A S : MetBy(S, d, Top.ctx) <=> got # {} /\ got \subseteq S
    BY <1>2, MetRule DEF q
  <2> QED BY <1>1, <1>8, <2>1, AdvanceForced DEF Account
<1> QED BY <1>9, <1>10, <1>11, <1>12, <1>13 DEF Account

\* The innermost frame with deps in the place of the next dependency.
LEMMA ReplacedIs ==
    ASSUME Inv, stack # <<>>, Top.todo # <<>>, NEW deps \in Seq(Dep \cup {Settle})
    PROVE  /\ ReplaceBy(deps) \in Frame /\ ReplaceBy(deps).ctx = Top.ctx
           /\ ReplaceBy(deps).conditional = Top.conditional
           /\ ReplaceBy(deps).min = Top.min /\ ReplaceBy(deps).max = Top.max
           /\ ReplaceBy(deps).todo = deps \o Tail(Top.todo)
           /\ Taken(ReplaceBy(deps)) = Taken(Top) \cup {}
<1>1. Top \in Frame
  BY TopType
<1>2. Top.todo \in Seq(Dep \cup {Settle})
  BY <1>1 DEF Frame
<1>3. deps \o Tail(Top.todo) \in Seq(Dep \cup {Settle})
  BY <1>2
<1> HIDE DEF Top
<1> QED BY <1>1, <1>3 DEF ReplaceBy, Frame, Taken

\* What a blocker stands for is marked.
LEMMA AccountTakeBlocker ==
    ASSUME Inv, Account, TakeBlocker
    PROVE  Account'
<1> DEFINE d == Head(Top.todo)
           q == Top.ctx
           found == Selection!Found(d, q)
           f == ReplaceBy(<<>>)
<1>1. /\ AtType({"blocker"})
      /\ Elements(Candidates(d, q)) \cap added = {}
      /\ blocked' = blocked \cup Elements(Candidates(d, q))
      /\ stack' = Append(Below, f)
      /\ UNCHANGED <<depends, entered, added, status>>
  BY DEF TakeBlocker
<1>2. /\ status = "running" /\ stack # <<>> /\ Top.todo # <<>>
      /\ d \in Dep /\ {d} \ {Settle} = {d} /\ d.type = "blocker" /\ q \in Owner
      /\ d \in Selection!Parts(q)
  <2> DEFINE types == {"blocker"}
  <2>1. "settle" \notin types /\ AtType(types) /\ \A t \in types : t = "blocker"
    BY <1>1
  <2> HIDE DEF types
  <2> QED BY <2>1, HeadIs
<1>3. blocked' = blocked \cup found
  BY <1>1, <1>2, FoundIs
<1>4. <<>> \in Seq(Dep \cup {Settle}) /\ Elements(<<>>) \ {Settle} = {}
  BY DEF Elements
<1>5. /\ f \in Frame /\ f.ctx = q /\ f.conditional = Top.conditional
      /\ f.min = Top.min /\ f.max = Top.max
      /\ f.todo = <<>> \o Tail(Top.todo) /\ Taken(f) = Taken(Top) \cup {}
  BY <1>2, <1>4, ReplacedIs
<1> HIDE DEF f, d, q
<1>6. /\ Advances(f, {d}, {}, {})
      /\ ~Top.conditional => f.todo # <<>> /\ f.todo[Len(f.todo)] = Settle
  <2>1. blocked \subseteq blocked'
    BY <1>3
  <2>2. /\ Advances(f, {Head(Top.todo)} \ {Settle}, Elements(<<>>) \ {Settle}, {})
        /\ ~Top.conditional =>
              IF Tail(Top.todo) = <<>> THEN Head(Top.todo) = Settle
              ELSE f.todo # <<>> /\ f.todo[Len(f.todo)] = Settle
    BY <1>1, <1>2, <1>4, <1>5, <2>1, Advancing DEF Account, q
  <2> QED BY <1>2, <1>4, <2>2 DEF d
<1>7. Shape'
  BY <1>6, AdvanceShape DEF Account
<1>8. Asks'
  BY <1>6, AdvanceAsks DEF Account
<1>9. Blocking'
  <2>1. PartsOf(d, Top.ctx) = {d} /\ Selection!Found(d, Top.ctx) \subseteq blocked'
    BY <1>2, <1>3, LeafIs DEF q
  <2> QED BY <1>6, <2>1, AdvanceBlocking DEF Account
<1>10. \A S : MetBy(S, d, Top.ctx) <=> found \cap S = {}
  BY <1>2, MetRule DEF q
<1>11. Meeting'
  BY <1>3, <1>6, <1>10, AdvanceMeeting DEF Account
<1>12. Forced'
  BY <1>3, <1>6, <1>10, AdvanceForced DEF Account
<1> QED BY <1>7, <1>8, <1>9, <1>11, <1>12 DEF Account

\* The parts of a group or a condition take its place if they apply.
LEMMA AccountParts ==
    ASSUME Inv, Account, AtType({"all", "when_use_set", "when_use_unset"}),
           NEW deps \in Seq(Dep \cup {Settle}),
           Elements(deps) \ {Settle} =
              IF Selection!Applies(Head(Top.todo), Top.ctx)
              THEN Elements(Head(Top.todo).deps) ELSE {},
           stack' = Append(Below, ReplaceBy(deps)),
           UNCHANGED <<depends, entered, added, blocked, status>>
    PROVE  Account'
<1> DEFINE d == Head(Top.todo)
           q == Top.ctx
           f == ReplaceBy(deps)
           more == Elements(deps) \ {Settle}
<1>1. /\ status = "running" /\ stack # <<>> /\ Top.todo # <<>>
      /\ d \in Dep /\ {d} \ {Settle} = {d} /\ q \in Owner /\ d \in Selection!Parts(q)
      /\ d.type \notin {"atom", "blocker"} \cup Selection!Choice
  <2> DEFINE types == {"all", "when_use_set", "when_use_unset"}
  <2>1. /\ "settle" \notin types /\ AtType(types)
        /\ \A t \in types : t \notin {"atom", "blocker"} \cup Selection!Choice
    BY DEF Selection!Choice
  <2> HIDE DEF types
  <2> QED BY <2>1, HeadIs
<1>2. more = IF Selection!Applies(d, q) THEN Elements(d.deps) ELSE {}
  OBVIOUS
<1>3. /\ f \in Frame /\ f.ctx = q /\ f.conditional = Top.conditional
      /\ f.min = Top.min /\ f.max = Top.max
      /\ f.todo = deps \o Tail(Top.todo) /\ Taken(f) = Taken(Top) \cup {}
  BY <1>1, ReplacedIs
<1> stack' = Append(Below, f)
  OBVIOUS
<1> HIDE DEF f, d, q, more
<1>4. /\ Advances(f, {d}, more, {})
      /\ ~Top.conditional => f.todo # <<>> /\ f.todo[Len(f.todo)] = Settle
  <2>1. /\ Advances(f, {Head(Top.todo)} \ {Settle}, Elements(deps) \ {Settle}, {})
        /\ ~Top.conditional =>
              IF Tail(Top.todo) = <<>> THEN Head(Top.todo) = Settle
              ELSE f.todo # <<>> /\ f.todo[Len(f.todo)] = Settle
    BY <1>1, <1>3, Advancing DEF Account, q
  <2> QED BY <1>1, <2>1 DEF d, more
<1>5. Shape'
  BY <1>4, AdvanceShape DEF Account
<1>6. PartsOf(d, q) = {d} \cup UNION {PartsOf(e, q) : e \in more} /\ \A e \in more : e \in Dep
  <2>1. Elements(d.deps) \subseteq Dep
    BY <1>1, DepAssumption DEF Elements
  <2> QED BY <1>1, <1>2, <2>1, PartsRule
<1>7. Asks'
  <2>1. PartsOf(d, q) \subseteq Selection!Parts(q) /\ \A e \in more : e \in PartsOf(e, q)
    BY <1>1, <1>6, PartsReach, PartsRule
  <2>2. more \subseteq Selection!Parts(q)
    BY <1>6, <2>1
  <2> QED BY <1>4, <2>2, AdvanceAsks DEF Account, q
<1>8. Blocking'
  BY <1>1, <1>4, <1>6, AdvanceBlocking DEF Account, q
<1>9. \A S : MetBy(S, d, q) <=> \A e \in more : MetBy(S, e, q)
  BY <1>1, <1>2, MetRule
<1>10. Meeting'
  <2>1. NamesOf(d, q) = UNION {NamesOf(e, q) : e \in more}
    BY <1>1, <1>2, NamesRule
  <2>2. \A e \in more : NamesOf(e, Top.ctx) \subseteq UNION {NamesOf(c, Top.ctx) : c \in {d}}
    BY <2>1 DEF q
  <2>3. \A S \in SUBSET Package :
           (\A e \in more : MetBy(S, e, Top.ctx)) => \A c \in {d} : MetBy(S, c, Top.ctx)
    BY <1>9 DEF q
  <2> QED BY <1>4, <2>2, <2>3, AdvanceMeeting DEF Account
<1>11. Forced'
  <2>1. \A S \in SUBSET Package :
           S \cap blocked = {} /\ added \subseteq S /\ (\A c \in {d} : MetBy(S, c, Top.ctx))
           => /\ S \cap blocked' = {} /\ {} \subseteq S
              /\ \A e \in more : MetBy(S, e, Top.ctx)
    BY <1>9 DEF q
  <2>2. Forced /\ Advances(f, {d}, more, {})
    BY <1>4 DEF Account
  <2> QED BY <2>1, <2>2, AdvanceForced, SMTT(60)
<1> QED BY <1>5, <1>7, <1>8, <1>10, <1>11 DEF Account

LEMMA AccountEnter ==
    ASSUME Inv, Account, EnterAll \/ EnterCondition
    PROVE  Account'
<1>1. ASSUME EnterAll PROVE Account'
  <2> DEFINE d == Head(Top.todo)
             deps == Append(d.deps, Settle)
             types == {"all", "when_use_set", "when_use_unset"}
  <2>1. /\ AtType({"all"}) /\ AtType(types)
        /\ stack' = Append(Below, ReplaceBy(deps))
        /\ UNCHANGED <<depends, entered, added, blocked, status>>
    BY <1>1 DEF EnterAll, AtType
  <2>2. "settle" \notin types
    OBVIOUS
  <2>3. d \in Dep /\ Settle \notin Elements(d.deps) /\ d.type = "all"
    <3>1. d.type = "all"
      BY <2>1 DEF AtType
    <3> HIDE DEF types
    <3> QED BY <2>1, <2>2, <3>1, HeadIs
  <2>4. d.deps \in Seq(Dep)
    BY <2>3, DepAssumption
  <2>5. deps \in Seq(Dep \cup {Settle}) /\ Elements(deps) = Elements(d.deps) \cup {Settle}
    <3>1. d.deps \in Seq(Dep \cup {Settle}) /\ Settle \in Dep \cup {Settle}
      BY <2>4
    <3> QED BY <3>1, OneMore
  <2>6. Selection!Applies(d, Top.ctx)
    BY <2>3 DEF Selection!Applies
  <2>7. Elements(deps) \ {Settle} = IF Selection!Applies(d, Top.ctx) THEN Elements(d.deps) ELSE {}
    BY <2>3, <2>5, <2>6
  <2> HIDE DEF deps
  <2> QED BY <2>1, <2>5, <2>7, AccountParts
<1>2. ASSUME EnterCondition PROVE Account'
  <2> DEFINE d == Head(Top.todo)
             deps == IF FlagIsSet(d.flag, Top.ctx) <=> d.type = "when_use_set"
                     THEN d.deps ELSE <<>>
             types == {"all", "when_use_set", "when_use_unset"}
  <2>1. /\ AtType({"when_use_set", "when_use_unset"}) /\ AtType(types)
        /\ stack' = Append(Below, ReplaceBy(deps))
        /\ UNCHANGED <<depends, entered, added, blocked, status>>
    BY <1>2 DEF EnterCondition, AtType
  <2>2. "settle" \notin types
    OBVIOUS
  <2>3. /\ d \in Dep /\ Settle \notin Elements(d.deps) /\ Top.ctx \in Owner
        /\ d.type \in {"when_use_set", "when_use_unset"}
    <3>1. d.type \in {"when_use_set", "when_use_unset"}
      BY <2>1 DEF AtType
    <3> HIDE DEF types
    <3> QED BY <2>1, <2>2, <3>1, HeadIs
  <2>4. d.deps \in Seq(Dep) /\ FlagIsSet(d.flag, Top.ctx) \in BOOLEAN
    BY <2>3, DepAssumption, FlagAssumption DEF Owner
  <2>5. deps \in Seq(Dep \cup {Settle})
    BY <2>4
  <2>6. Selection!Applies(d, Top.ctx) <=> (FlagIsSet(d.flag, Top.ctx) <=> d.type = "when_use_set")
    BY <2>3, <2>4 DEF Selection!Applies
  <2>7. Elements(deps) \ {Settle} = IF Selection!Applies(d, Top.ctx) THEN Elements(d.deps) ELSE {}
    <3>1. Elements(<<>>) = {}
      BY DEF Elements
    <3> QED BY <2>3, <2>6, <3>1
  <2>8. AtType(types) /\ stack' = Append(Below, ReplaceBy(deps))
    BY <2>1
  <2> HIDE DEF deps
  <2> QED BY <2>1, <2>5, <2>7, <2>8, AccountParts
<1> QED BY <1>1, <1>2

\* At the mark, when there is nothing left to add.
LEMMA AccountSettled ==
    ASSUME Inv, Account, Settled
    PROVE  Account'
<1> DEFINE f == ReplaceBy(<<>>)
<1>1. /\ status = "running" /\ stack # <<>> /\ Top.todo # <<>> /\ Head(Top.todo) = Settle
      /\ Pending = {} /\ stack' = Append(Below, f)
      /\ UNCHANGED <<depends, entered, added, blocked, status>>
  BY DEF Settled, AtSettle
<1>2. <<>> \in Seq(Dep \cup {Settle}) /\ Elements(<<>>) \ {Settle} = {}
  BY DEF Elements
<1>3. /\ f \in Frame /\ f.ctx = Top.ctx /\ f.conditional = Top.conditional
      /\ f.min = Top.min /\ f.max = Top.max
      /\ f.todo = <<>> \o Tail(Top.todo) /\ Taken(f) = Taken(Top) \cup {}
  BY <1>1, <1>2, ReplacedIs
<1>4. f.todo = Tail(Top.todo)
  <2>1. Top \in Frame
    BY <1>1, TopType
  <2>2. Tail(Top.todo) \in Seq(Dep \cup {Settle})
    BY <1>1, <2>1 DEF Frame
  <2> HIDE DEF f, Top
  <2> QED BY <1>3, <2>2
<1> HIDE DEF f
<1>5. /\ Advances(f, {}, {}, {})
      /\ ~Top.conditional =>
            IF Tail(Top.todo) = <<>> THEN Head(Top.todo) = Settle
            ELSE f.todo # <<>> /\ f.todo[Len(f.todo)] = Settle
  <2>1. /\ Advances(f, {Head(Top.todo)} \ {Settle}, Elements(<<>>) \ {Settle}, {})
        /\ ~Top.conditional =>
              IF Tail(Top.todo) = <<>> THEN Head(Top.todo) = Settle
              ELSE f.todo # <<>> /\ f.todo[Len(f.todo)] = Settle
    BY <1>1, <1>2, <1>3, Advancing DEF Account
  <2>2. {Head(Top.todo)} \ {Settle} = {}
    BY <1>1
  <2> QED BY <1>2, <2>1, <2>2
<1>6. ~Top.conditional => Taken(f) \subseteq added
  BY <1>1, <1>3 DEF Pending, Taken, Elements
<1>7. Shape'
  BY <1>4, <1>5, <1>6, AdvanceShape DEF Account
<1>8. Asks'
  BY <1>5, AdvanceAsks DEF Account
<1>9. Blocking'
  BY <1>5, AdvanceBlocking DEF Account
<1>10. Meeting'
  BY <1>5, AdvanceMeeting DEF Account
<1>11. Forced'
  BY <1>1, <1>5, AdvanceForced DEF Account
<1> QED BY <1>7, <1>8, <1>9, <1>10, <1>11 DEF Account

\* With no choices, an error means that nothing solves the request.
LEMMA AccountFails ==
    ASSUME Inv, Account, AtomMissing \/ BlockerFails \/ FoundBlocked \/ NothingToChoose \/ DependenciesFail
    PROVE  Account'
<1>1. /\ status = "running" /\ stack # <<>> /\ status' \in Error
      /\ UNCHANGED <<depends, entered, added, stack>>
  BY DEF AtomMissing, BlockerFails, FoundBlocked, NothingToChoose, DependenciesFail,
         AtType, AtSettle, AtEnd, FailWith, Error
<1>2. Shape' /\ Asks'
  <2>1. \A q : /\ Selection!Parts(q)' = Selection!Parts(q)
               /\ Selection!Asked(q)' = Selection!Asked(q)
    BY <1>1, SameDepends
  <2>2. Shape'
    BY <1>1 DEF Account, Shape, Owed, Taken, Selected, InChoice
  <2> QED BY <1>1, <2>1, <2>2 DEF Account, Asks, Owed, Taken
<1>3. Blocking' /\ Meeting'
  BY <1>1 DEF Blocking, Meeting, Going, Error
<1>4. Len(stack) \in DOMAIN stack /\ Top = stack[Len(stack)] /\ Top \in Frame
  <2>1. Len(stack) \in DOMAIN stack /\ Top \in Frame
    BY <1>1, TopType
  <2> QED BY <2>1 DEF Top
<1>5. ASSUME NEW S \in SUBSET Package, Needed(S) PROVE Needed(S)'
  <2>1. /\ Taken(Top) \subseteq S /\ \A d \in Owed(Top) : MetBy(S, d, Top.ctx)
        /\ added \subseteq S /\ S \cap blocked = {}
        /\ \A k \in DOMAIN stack :
              Taken(stack[k]) \subseteq S /\ \A d \in Owed(stack[k]) : MetBy(S, d, stack[k].ctx)
    BY <1>4, <1>5 DEF Needed
  <2>2. ASSUME NEW types, "settle" \notin types, AtType(types)
        PROVE  /\ Head(Top.todo) \in Dep /\ Top.ctx \in Owner /\ Head(Top.todo).type \in types
               /\ MetBy(S, Head(Top.todo), Top.ctx)
    <3>1. /\ Head(Top.todo) \in Dep /\ Top.ctx \in Owner /\ Head(Top.todo).type \in types
          /\ Top.todo # <<>> /\ {Head(Top.todo)} \ {Settle} = {Head(Top.todo)}
      BY <2>2, HeadIs
    <3>2. Top.todo \in Seq(Dep \cup {Settle})
      BY <1>4 DEF Frame
    <3> DEFINE todo == Top.todo
    <3>3. todo \in Seq(Dep \cup {Settle}) /\ todo # <<>>
      BY <3>1, <3>2
    <3> HIDE DEF todo
    <3>4. Head(todo) \in Elements(todo)
      BY <3>3 DEF Elements
    <3>5. Head(Top.todo) \in Owed(Top)
      BY <3>1, <3>4 DEF Owed, todo
    <3> QED BY <2>1, <3>1, <3>5
  <2>3. CASE AtomMissing
    <3> DEFINE d == Head(Top.todo)
    <3>1. AtType({"atom"}) /\ Candidates(d, Top.ctx) = <<>>
      BY <2>3 DEF AtomMissing
    <3>2. d \in Dep /\ Top.ctx \in Owner /\ d.type = "atom" /\ MetBy(S, d, Top.ctx)
      <4> DEFINE types == {"atom"}
      <4>1. "settle" \notin types /\ AtType(types) /\ \A t \in types : t = "atom"
        BY <3>1
      <4> HIDE DEF types
      <4> QED BY <2>2, <4>1
    <3>3. Selection!Found(d, Top.ctx) = {}
      BY <3>1, <3>2, FoundIs DEF Elements
    <3> QED BY <3>2, <3>3, MetRule
  <2>4. CASE BlockerFails
    <3> DEFINE d == Head(Top.todo)
    <3>1. AtType({"blocker"}) /\ Elements(Candidates(d, Top.ctx)) \cap added # {}
      BY <2>4 DEF BlockerFails
    <3>2. d \in Dep /\ Top.ctx \in Owner /\ d.type = "blocker" /\ MetBy(S, d, Top.ctx)
      <4> DEFINE types == {"blocker"}
      <4>1. "settle" \notin types /\ AtType(types) /\ \A t \in types : t = "blocker"
        BY <3>1
      <4> HIDE DEF types
      <4> QED BY <2>2, <4>1
    <3>3. Selection!Found(d, Top.ctx) \cap added # {}
      BY <3>1, <3>2, FoundIs
    <3>4. Selection!Found(d, Top.ctx) \cap S = {}
      BY <3>2, MetRule
    <3> QED BY <2>1, <3>3, <3>4
  <2>5. CASE FoundBlocked
    <3>1. Pending # {} /\ Top.resolved[First(Pending)] \in blocked
      BY <2>5 DEF FoundBlocked
    <3>2. First(Pending) \in Pending
      <4>1. Top.resolved \in Seq(Package)
        BY <1>4 DEF Frame
      <4>2. Pending \subseteq Nat
        BY <4>1 DEF Pending
      <4>3. \E k \in Pending : \A j \in Pending : k <= j
        BY <3>1, <4>2, LeastNatural
      <4> QED BY <4>3 DEF First
    <3>3. Top.resolved[First(Pending)] \in Taken(Top)
      BY <3>2 DEF Pending, Taken, Elements
    <3> QED BY <2>1, <3>1, <3>3
  <2>6. CASE NothingToChoose
    <3>1. status' = "no choice" /\ blocked' = blocked
      BY <2>6 DEF NothingToChoose, FailWith
    <3> QED BY <1>1, <2>1, <3>1 DEF Needed, Taken, Owed
  <2>7. CASE DependenciesFail
    <3>1. status' = "unreadable" /\ blocked' = blocked
      BY <2>7 DEF DependenciesFail, FailWith
    <3> QED BY <1>1, <2>1, <3>1 DEF Needed, Taken, Owed
  <2> QED BY <2>3, <2>4, <2>5, <2>6, <2>7
<1>6. Forced'
  <2>1. Started
    BY <1>1 DEF Started
  <2>2. (Plain' <=> Plain) /\ \A S : Selection!Solves(S)' <=> Selection!Solves(S)
    BY <1>1, SameDepends
  <2> QED BY <1>5, <2>1, <2>2 DEF Account, Forced
<1> QED BY <1>2, <1>3, <1>6 DEF Account

\* A choice begins: the packages that it can come to are those it names.
LEMMA AccountEnterChoice ==
    ASSUME Inv, Account, EnterChoice
    PROVE  Account'
<1> DEFINE d == Head(Top.todo)
           q == Top.ctx
           n == Len(stack)
           min == IF d.type = "at_most_one_of" THEN 0 ELSE 1
           max == IF d.type = "any_of" THEN Len(d.deps) ELSE 1
           outer == ReplaceBy(<<>>)
           choice == NewFrame(q, d.deps, TRUE, min, max)
<1>1. /\ AtType(Selection!Choice)
      /\ stack' = Below \o <<outer, choice>>
      /\ UNCHANGED <<depends, entered, added, blocked, status>>
  BY DEF EnterChoice, Selection!Choice
<1>2. /\ status = "running" /\ stack # <<>> /\ Top.todo # <<>>
      /\ d \in Dep /\ d # Settle /\ d.type \in Selection!Choice
      /\ q \in Owner /\ q \in Selected /\ d \in Selection!Parts(q)
      /\ Elements(d.deps) \subseteq Dep /\ Settle \notin Elements(d.deps)
  <2>1. "settle" \notin Selection!Choice
    BY DEF Selection!Choice
  <2> QED BY <1>1, <2>1, HeadIs
<1>3. d.deps \in Seq(Dep)
  BY <1>2, DepAssumption
<1>4. <<>> \in Seq(Dep \cup {Settle}) /\ Elements(<<>>) = {}
  BY DEF Elements
<1>5. /\ outer \in Frame /\ outer.ctx = q /\ outer.conditional = Top.conditional
      /\ outer.min = Top.min /\ outer.max = Top.max
      /\ outer.todo = <<>> \o Tail(Top.todo) /\ Taken(outer) = Taken(Top)
  BY <1>2, <1>4, ReplacedIs
<1>6. /\ choice \in Frame /\ choice.ctx = q /\ choice.conditional = TRUE
      /\ choice.min = min /\ choice.max = max
      /\ Owed(choice) = Elements(d.deps) /\ Taken(choice) = {}
  <2>1. d.deps \in Seq(Dep \cup {Settle}) /\ min \in {0, 1} /\ max \in Nat
    BY <1>3
  <2> HIDE DEF min, max, d, q
  <2>2. Owed(choice) = Elements(d.deps)
    BY <1>2 DEF NewFrame, Owed
  <2> QED BY <1>2, <1>4, <2>1, <2>2 DEF NewFrame, Frame, Taken, Owner
<1>7. /\ Top.todo \in Seq(Dep \cup {Settle}) /\ Tail(Top.todo) \in Seq(Dep \cup {Settle})
      /\ n \in Nat \ {0} /\ n \in DOMAIN stack /\ DOMAIN stack = 1 .. n
  <2>1. Top \in Frame
    BY <1>2, TopType
  <2>2. Top.todo \in Seq(Dep \cup {Settle})
    BY <2>1 DEF Frame
  <2>3. Tail(Top.todo) \in Seq(Dep \cup {Settle})
    BY <1>2, <2>2
  <2> QED BY <1>2, <2>2, <2>3, TopType
<1>8. Top = stack[n]
  BY DEF Top
<1>9. outer.todo = Tail(Top.todo)
  <2> HIDE DEF outer
  <2> QED BY <1>5, <1>7
<1>10. /\ Owed(Top) = {d} \cup Owed(outer)
       /\ ~Top.conditional => outer.todo # <<>> /\ outer.todo[Len(outer.todo)] = Settle
  <2> DEFINE todo == Top.todo
             S == Dep \cup {Settle}
  <2>1. todo \in Seq(S) /\ todo # <<>>
    BY <1>2, <1>7
  <2>2. /\ Elements(todo) = {Head(todo)} \cup Elements(Tail(todo))
        /\ Tail(todo) # <<>> => Tail(todo)[Len(Tail(todo))] = todo[Len(todo)]
        /\ Tail(todo) = <<>> => Head(todo) = todo[Len(todo)]
    <3> HIDE DEF todo, S
    <3> QED BY <2>1, ElementsOf
  <2>3. ~Top.conditional => todo[Len(todo)] = Settle
    BY <1>2, <1>7, <1>8 DEF Account, Shape, InChoice
  <2> HIDE DEF outer
  <2> QED BY <1>2, <1>9, <2>2, <2>3 DEF Owed
<1>11. /\ DOMAIN stack' = 1 .. n + 1 /\ Len(stack') = n + 1
       /\ \A k \in 1 .. n - 1 : stack'[k] = stack[k]
       /\ stack'[n] = outer /\ stack'[n + 1] = choice
  <2> HIDE DEF Frame, outer, choice
  <2> QED BY <1>1, <1>2, <1>5, <1>6, TwoFrames
<1> HIDE DEF outer, choice
<1>12. \A k \in DOMAIN stack : /\ k \in DOMAIN stack' /\ k # n + 1
                               /\ stack'[k].ctx = stack[k].ctx
                               /\ stack'[k].conditional = stack[k].conditional
                               /\ stack'[k].min = stack[k].min /\ stack'[k].max = stack[k].max
                               /\ Taken(stack'[k]) = Taken(stack[k])
                               /\ Owed(stack'[k]) \subseteq Owed(stack[k])
  <2> SUFFICES ASSUME NEW k \in DOMAIN stack
               PROVE  /\ k \in DOMAIN stack' /\ k # n + 1
                      /\ stack'[k].ctx = stack[k].ctx
                      /\ stack'[k].conditional = stack[k].conditional
                      /\ stack'[k].min = stack[k].min /\ stack'[k].max = stack[k].max
                      /\ Taken(stack'[k]) = Taken(stack[k])
                      /\ Owed(stack'[k]) \subseteq Owed(stack[k])
    OBVIOUS
  <2> HIDE DEF n, d, q, min, max
  <2>1. k \in 1 .. n + 1 /\ k # n + 1 /\ (k = n \/ k \in 1 .. n - 1)
    BY <1>7
  <2> QED BY <1>5, <1>8, <1>10, <1>11, <2>1 DEF q
<1>13. InChoice' = InChoice \cup {n + 1}
  <2> HIDE DEF n
  <2>1. DOMAIN stack' = DOMAIN stack \cup {n + 1}
    BY <1>7, <1>11
  <2>2. stack'[n + 1].conditional
    BY <1>6, <1>11
  <2> QED BY <1>12, <2>1, <2>2 DEF InChoice
<1>14. Selected' = Selected /\ depends' = depends /\ added' = added /\ blocked' = blocked
  BY <1>1 DEF Selected
<1>15. min = 0 \/ max >= 1 \/ Owed(choice) = {}
  <2>1. CASE d.type = "any_of"
    <3>1. Len(d.deps) >= 1 \/ Elements(d.deps) = {}
      BY <1>3 DEF Elements
    <3> QED BY <1>6, <2>1, <3>1
  <2>2. CASE d.type # "any_of"
    BY <2>2
  <2> QED BY <2>1, <2>2
<1> HIDE DEF n, min, max, d, q
<1>16. Shape'
  <2>1. \A k \in DOMAIN stack' : k \in DOMAIN stack \/ k = n + 1
    BY <1>7, <1>11
  <2>2. \A k \in DOMAIN stack' : stack'[k].ctx \in Selected
    BY <1>2, <1>6, <1>11, <1>12, <2>1 DEF Account, Shape
  <2>3. ASSUME NEW j \in DOMAIN stack', NEW k \in DOMAIN stack', j < k, j \in InChoice'
        PROVE  k \in InChoice'
    <3>1. CASE k = n + 1
      BY <3>1, <1>13
    <3>2. CASE k # n + 1
      <4>1. k \in DOMAIN stack /\ j \in DOMAIN stack /\ j # n + 1
        BY <1>7, <1>11, <2>3, <3>2
      <4> QED BY <1>13, <2>3, <4>1 DEF Account, Shape
    <3> QED BY <3>1, <3>2
  <2>4. ASSUME NEW k \in InChoice'
        PROVE  /\ k - 1 \in DOMAIN stack'
               /\ stack'[k].ctx = stack'[k - 1].ctx
               /\ \/ stack'[k].min = 0
                  \/ stack'[k].max >= 1
                  \/ /\ k = Len(stack')
                     /\ Owed(stack'[k]) = {} /\ Taken(stack'[k]) = {}
    <3>1. CASE k = n + 1
      <4>1. k - 1 = n /\ stack'[n].ctx = q /\ n \in DOMAIN stack'
        BY <3>1, <1>5, <1>7, <1>11
      <4> QED BY <3>1, <4>1, <1>6, <1>11, <1>15
    <3>2. CASE k # n + 1
      <4>1. k \in InChoice /\ k \in DOMAIN stack
        BY <3>2, <1>13 DEF InChoice
      <4>2. /\ k - 1 \in DOMAIN stack
            /\ stack[k].ctx = stack[k - 1].ctx
            /\ \/ stack[k].min = 0
               \/ stack[k].max >= 1
               \/ k = n /\ Owed(stack[k]) = {}
        BY <4>1 DEF Account, Shape, n
      <4>3. ~(k = n /\ Owed(stack[k]) = {})
        BY <1>8, <1>10
      <4> QED BY <1>12, <4>1, <4>2, <4>3
    <3> QED BY <3>1, <3>2
  <2>5. ASSUME NEW k \in DOMAIN stack' \ InChoice'
        PROVE  stack'[k].todo # <<>> /\ stack'[k].todo[Len(stack'[k].todo)] = Settle
    <3>1. k \in DOMAIN stack \ InChoice /\ k # n + 1
      BY <1>13, <2>1
    <3>2. CASE k = n
      BY <3>1, <3>2, <1>7, <1>8, <1>10, <1>11 DEF InChoice
    <3>3. CASE k # n
      <4>1. k \in 1 .. n - 1 /\ k # Len(stack)
        BY <1>7, <3>1, <3>3 DEF n
      <4> QED BY <1>11, <3>1, <4>1 DEF Account, Shape
    <3> QED BY <3>2, <3>3
  <2> QED BY <1>14, <2>2, <2>3, <2>4, <2>5 DEF Shape
<1>17. Selection!Applies(d, q)
  BY <1>2 DEF Selection!Applies, Selection!Choice
<1>18. PartsOf(d, q) = {d} \cup UNION {PartsOf(e, q) : e \in Owed(choice)}
  BY <1>2, <1>6, <1>17, PartsRule
<1>19. Asks'
  <2>1. Elements(d.deps) \subseteq Selection!Parts(q)
    <3>1. PartsOf(d, q) \subseteq Selection!Parts(q)
      BY <1>2, PartsReach
    <3>2. \A e \in Elements(d.deps) : e \in PartsOf(e, q)
      BY <1>2, PartsRule
    <3> QED BY <1>6, <1>18, <3>1, <3>2
  <2>2. ASSUME NEW k \in DOMAIN stack'
        PROVE  /\ Owed(stack'[k]) \subseteq Selection!Parts(stack'[k].ctx)
               /\ Taken(stack'[k]) \subseteq Selection!Asked(stack'[k].ctx)
    <3>1. CASE k = n + 1
      BY <3>1, <1>6, <1>11, <2>1
    <3>2. CASE k # n + 1
      <4>1. k \in DOMAIN stack
        BY <1>7, <1>11, <3>2
      <4> QED BY <1>12, <4>1 DEF Account, Asks
    <3> QED BY <3>1, <3>2
  <2>3. \A r : /\ Selection!Parts(r)' = Selection!Parts(r)
               /\ Selection!Asked(r)' = Selection!Asked(r)
    BY <1>14, SameDepends
  <2> QED BY <2>2, <2>3 DEF Asks
<1>20. Blocking'
  <2>1. ASSUME NEW r \in Selected, NEW b \in Selection!Parts(r), b.type = "blocker", Coming(b, r)
        PROVE  Coming(b, r)'
    <3>1. PICK k \in DOMAIN stack : stack[k].ctx = r /\ \E e \in Owed(stack[k]) : b \in PartsOf(e, r)
      BY <2>1 DEF Coming
    <3>2. PICK e \in Owed(stack[k]) : b \in PartsOf(e, r)
      BY <3>1
    <3>3. CASE e \in Owed(stack'[k])
      BY <3>1, <3>2, <3>3, <1>12 DEF Coming
    <3>4. CASE e \notin Owed(stack'[k])
      <4>1. k = n /\ e = d
        <5>1. k \in 1 .. n - 1 => stack'[k] = stack[k]
          BY <1>11
        <5>2. k = n
          BY <3>2, <3>4, <5>1, <1>7
        <5> QED BY <3>2, <3>4, <5>2, <1>8, <1>10, <1>11
      <4>2. r = q /\ b # d
        BY <3>1, <4>1, <2>1, <1>2, <1>8 DEF q, Selection!Choice
      <4>3. \E c \in Owed(choice) : b \in PartsOf(c, r)
        BY <1>18, <3>2, <4>1, <4>2
      <4>4. n + 1 \in DOMAIN stack'
        BY <1>7, <1>11
      <4> QED BY <1>6, <1>11, <4>2, <4>3, <4>4 DEF Coming
    <3> QED BY <3>3, <3>4
  <2>2. \A r : Selection!Parts(r)' = Selection!Parts(r)
    BY <1>14, SameDepends
  <2> QED BY <1>2, <1>14, <2>1, <2>2 DEF Account, Blocking, Going
<1>21. Offered(choice) = NamesOf(d, q)
  <2>1. NamesOf(d, q) = UNION {NamesOf(e, q) : e \in Owed(choice)}
    BY <1>2, <1>6, <1>17, NamesRule DEF Selection!Choice
  <2> QED BY <1>6, <2>1 DEF Offered
<1>22. Offer' = UNION {Offered(stack'[k]) : k \in InChoice'}
  BY DEF Offer, Offered, Taken, Owed
<1>23. ASSUME NEW k \in DOMAIN stack \ InChoice, NEW S \in SUBSET Package, Suits(k, S)'
       PROVE  Suits(k, S)
  <2>1. S \cap blocked = {} /\ Taken(stack[k]) \subseteq S
    BY <1>12, <1>14, <1>23 DEF Suits
  <2>2. \A e \in Owed(stack'[k]) : MetBy(S, e, stack[k].ctx)
    BY <1>12, <1>23 DEF Suits
  <2>3. CASE k = n
    <3>1. InChoice = {}
      <4>1. \A j \in InChoice : j \in DOMAIN stack /\ (j < n \/ j = n)
        BY <1>7 DEF InChoice
      <4> QED BY <1>7, <2>3, <4>1 DEF Account, Shape
    <3>2. Offer' = NamesOf(d, q)
      BY <1>11, <1>13, <1>21, <1>22, <3>1
    <3>3. MetBy(S, d, q)
      <4>1. CASE d.type = "at_most_one_of"
        BY <4>1, <1>2, MetRule
      <4>2. CASE d.type # "at_most_one_of"
        <5>1. choice.min = 1
          BY <4>2, <1>6 DEF min
        <5>2. Offer' \cap S # {}
          <6>1. n + 1 \in InChoice' /\ stack'[n + 1].min = 1
            BY <1>11, <1>13, <5>1
          <6> QED BY <1>23, <2>3, <6>1 DEF Suits
        <5>3. d.type \in {"any_of", "exactly_one_of"}
          BY <1>2, <4>2 DEF Selection!Choice
        <5> QED BY <1>2, <3>2, <5>2, <5>3, MetRule
      <4> QED BY <4>1, <4>2
    <3>4. stack[k].ctx = q /\ stack[k] = Top /\ stack'[k] = outer
      BY <1>8, <1>11, <2>3 DEF q
    <3>5. \A e \in Owed(stack[k]) : MetBy(S, e, stack[k].ctx)
      BY <1>10, <2>2, <3>3, <3>4
    <3> QED BY <2>1, <3>1, <3>5 DEF Suits
  <2>4. CASE k # n
    <3>1. stack'[k] = stack[k]
      <4>1. k \in 1 .. n - 1
        BY <1>7, <2>4
      <4> QED BY <1>11, <4>1
    <3>2. ASSUME k + 1 \in InChoice, stack[k + 1].min = 1 PROVE Offer \cap S # {}
      <4>1. k + 1 \in DOMAIN stack /\ stack[k + 1].conditional
        BY <3>2 DEF InChoice
      <4>2. Top.conditional /\ n \in InChoice
        <5>1. n \in InChoice
          <6>1. k + 1 = n \/ k + 1 < n
            BY <1>7, <4>1
          <6> QED BY <1>7, <3>2, <4>1, <6>1 DEF Account, Shape
        <5> QED BY <1>8, <5>1 DEF InChoice
      <4>3. Offer' \cap S # {}
        <5>1. k + 1 \in InChoice' /\ stack'[k + 1].min = 1
          BY <1>12, <1>13, <3>2, <4>1
        <5> QED BY <1>23, <5>1 DEF Suits
      <4>4. Offered(choice) \subseteq Offered(Top) /\ Offered(outer) \subseteq Offered(Top)
        BY <1>5, <1>10, <1>21 DEF Offered, q
      <4>5. \A j \in InChoice' : \E i \in InChoice : Offered(stack'[j]) \subseteq Offered(stack[i])
        <5> SUFFICES ASSUME NEW j \in InChoice'
                     PROVE  \E i \in InChoice : Offered(stack'[j]) \subseteq Offered(stack[i])
          OBVIOUS
        <5>1. CASE j \in {n, n + 1}
          BY <5>1, <1>8, <1>11, <4>2, <4>4
        <5>2. CASE j \notin {n, n + 1}
          <6>1. j \in InChoice /\ j \in DOMAIN stack
            BY <5>2, <1>13 DEF InChoice
          <6>2. j \in 1 .. n - 1
            BY <5>2, <6>1, <1>7
          <6> QED BY <1>11, <6>1, <6>2
        <5> QED BY <5>1, <5>2
      <4> QED BY <1>22, <4>3, <4>5 DEF Offer
    <3> QED BY <2>1, <2>2, <3>1, <3>2 DEF Suits
  <2> QED BY <2>3, <2>4
<1>24. Meeting'
  <2>1. \A S, r : Selection!Meets(S, r)' <=> Selection!Meets(S, r)
    BY <1>14, SameDepends
  <2>2. ASSUME NEW r \in Selected, Promised(r) PROVE Promised(r)'
    <3>1. PICK k \in DOMAIN stack \ InChoice :
             /\ stack[k].ctx = r
             /\ \A S \in SUBSET Package : Suits(k, S) => Selection!Meets(S, r)
      BY <2>2 DEF Promised
    <3>2. \A S \in SUBSET Package : Suits(k, S)' => Selection!Meets(S, r)'
      BY <1>23, <2>1, <3>1
    <3>3. k \in DOMAIN stack' \ InChoice' /\ stack'[k].ctx = r
      BY <1>12, <1>13, <3>1
    <3> QED BY <3>2, <3>3 DEF Promised
  <2>3. ASSUME NEW r \in Selected, Fulfilled(r) PROVE Fulfilled(r)'
    BY <1>14, <2>1, <2>3 DEF Fulfilled
  <2> QED BY <1>2, <1>14, <2>2, <2>3 DEF Account, Meeting, Going
<1>25. Forced'
  <2>1. ~Plain
    BY <1>2 DEF Plain, Owner
  <2>2. Plain' <=> Plain
    BY <1>14, SameDepends
  <2> QED BY <2>1, <2>2 DEF Forced
<1> QED BY <1>16, <1>19, <1>20, <1>24, <1>25 DEF Account

\* What is chosen is of what has been found, and something if something has to be.
LEMMA ChosenIs ==
    ASSUME Top \in Frame
    PROVE  /\ Elements(Chosen) \subseteq Taken(Top)
           /\ Len(Top.resolved) >= 1 /\ Top.max >= 1 => Elements(Chosen) # {}
<1> DEFINE s == Top.resolved
           n == IF Len(s) > Top.max THEN Top.max ELSE Len(s)
           u == SubSeq(s, 1, n)
<1>1. s \in Seq(Package) /\ Top.max \in Nat
  BY DEF Frame
<1>2. /\ n \in 0 .. Len(s) /\ s \in Seq(Package)
      /\ Len(s) >= 1 /\ Top.max >= 1 => n >= 1
  BY <1>1
<1> HIDE DEF s, n
<1>3. /\ Len(u) = n /\ u \in Seq(Package) /\ DOMAIN u = 1 .. n /\ DOMAIN s = 1 .. Len(s)
      /\ \A i \in 1 .. n : u[i] = s[i]
  BY <1>2
<1> HIDE DEF u
<1>4. Elements(u) \subseteq Elements(s)
  BY <1>2, <1>3 DEF Elements
<1>5. n >= 1 => u[1] \in Elements(u)
  BY <1>2, <1>3 DEF Elements
<1> QED BY <1>2, <1>4, <1>5 DEF u, n, s, Chosen, Taken

\* The choice that is made is one that there was to be made.
LEMMA AccountChoose ==
    ASSUME Inv, Account, Choose
    PROVE  Account'
<1> DEFINE n == Len(stack)
           got == Elements(Chosen)
<1>1. /\ status = "running" /\ stack # <<>> /\ Top.todo = <<>> /\ Top.conditional
      /\ Len(Top.resolved) >= Top.min
      /\ UNCHANGED <<depends, entered, added, blocked, status>>
  BY DEF Choose, AtEnd
<1>2. Top \in Frame /\ got \subseteq Taken(Top)
  BY <1>1, TopType, ChosenIs
<1>3. /\ n \in Nat /\ n >= 2 /\ DOMAIN stack = 1 .. n
      /\ Chosen \in Seq(Package)
      /\ stack' \in Seq(Frame) /\ DOMAIN stack' = 1 .. n - 1
      /\ \A k \in 1 .. n - 1 :
            /\ stack'[k].ctx = stack[k].ctx
            /\ stack'[k].conditional = stack[k].conditional
            /\ stack'[k].min = stack[k].min /\ stack'[k].max = stack[k].max
            /\ stack'[k].todo = stack[k].todo
            /\ stack'[k].resolved = IF k = n - 1 THEN stack[k].resolved \o Chosen
                                    ELSE stack[k].resolved
  BY ChoiceMade
<1>4. Top = stack[n] /\ n \in InChoice /\ n \in DOMAIN stack
  <2>1. Top = stack[n]
    BY DEF Top
  <2> HIDE DEF n
  <2>2. n \in DOMAIN stack
    BY <1>3
  <2> QED BY <1>1, <2>1, <2>2 DEF InChoice
<1>5. /\ n - 1 \in DOMAIN stack /\ Top.ctx = stack[n - 1].ctx
      /\ Top.min = 1 => got # {}
  <2>1. /\ Top.ctx = stack[n - 1].ctx /\ n - 1 \in DOMAIN stack
        /\ Top.min = 0 \/ Top.max >= 1 \/ Taken(Top) = {}
    BY <1>3, <1>4 DEF Account, Shape
  <2>2. Top.min = 1 => Len(Top.resolved) >= 1
    BY <1>1
  <2>3. Len(Top.resolved) >= 1 => Taken(Top) # {}
    <3>1. Top.resolved \in Seq(Package)
      BY <1>2 DEF Frame
    <3>2. Len(Top.resolved) >= 1 => Top.resolved[1] \in Elements(Top.resolved)
      BY <3>1 DEF Elements
    <3> QED BY <3>2 DEF Taken
  <2>4. Top.min = 1 => Len(Top.resolved) >= 1 /\ Top.max >= 1
    BY <2>1, <2>2, <2>3
  <2> QED BY <1>2, <2>1, <2>4, ChosenIs
<1>6. \A k \in DOMAIN stack' :
         /\ k \in DOMAIN stack /\ k # n
         /\ Owed(stack'[k]) = Owed(stack[k])
         /\ Taken(stack'[k]) = IF k = n - 1 THEN Taken(stack[k]) \cup got ELSE Taken(stack[k])
  <2> SUFFICES ASSUME NEW k \in DOMAIN stack'
               PROVE  /\ k \in DOMAIN stack /\ k # n
                      /\ Owed(stack'[k]) = Owed(stack[k])
                      /\ Taken(stack'[k]) = IF k = n - 1 THEN Taken(stack[k]) \cup got
                                            ELSE Taken(stack[k])
    OBVIOUS
  <2> HIDE DEF n
  <2>1. k \in 1 .. n - 1 /\ k \in DOMAIN stack /\ k # n
    BY <1>3
  <2>2. stack[k].resolved \in Seq(Package)
    <3>1. stack[k] \in Frame
      BY <2>1 DEF Inv, TypeOK
    <3> QED BY <3>1 DEF Frame
  <2>3. Elements(stack[k].resolved \o Chosen) = Elements(stack[k].resolved) \cup Elements(Chosen)
    <3> DEFINE s == stack[k].resolved
               t == Chosen
    <3>1. s \in Seq(Package) /\ t \in Seq(Package)
      BY <1>3, <2>2
    <3> HIDE DEF s, t
    <3>2. Elements(s \o t) = Elements(s) \cup Elements(t)
      BY <3>1, ElementsOf
    <3> QED BY <3>2 DEF s, t
  <2> QED BY <1>3, <2>1, <2>3 DEF Owed, Taken
<1>7. Owed(Top) = {}
  BY <1>1 DEF Owed, Elements
<1>8. InChoice' = InChoice \ {n}
  <2> HIDE DEF n
  <2>1. \A k \in DOMAIN stack : k # n => k \in DOMAIN stack'
    BY <1>3
  <2> QED BY <1>3, <1>6, <2>1 DEF InChoice
<1>9. Selected' = Selected /\ depends' = depends /\ added' = added /\ blocked' = blocked
  BY <1>1 DEF Selected
<1>10. /\ \A q : /\ Selection!Parts(q)' = Selection!Parts(q)
                 /\ Selection!Asked(q)' = Selection!Asked(q)
       /\ \A S, q : Selection!Meets(S, q)' <=> Selection!Meets(S, q)
       /\ \A S : Selection!Solves(S)' <=> Selection!Solves(S)
       /\ Plain' <=> Plain
  BY <1>9, SameDepends
<1> HIDE DEF n, got
<1>11. \A k \in DOMAIN stack' : /\ stack'[k].ctx = stack[k].ctx
                                /\ stack'[k].conditional = stack[k].conditional
                                /\ stack'[k].min = stack[k].min /\ stack'[k].max = stack[k].max
                                /\ stack'[k].todo = stack[k].todo
  BY <1>3
<1>12. Shape'
  <2>1. \A k \in DOMAIN stack' : stack'[k].ctx \in Selected
    BY <1>6, <1>11 DEF Account, Shape
  <2>2. \A j, k \in DOMAIN stack' : j < k /\ j \in InChoice' => k \in InChoice'
    BY <1>6, <1>8 DEF Account, Shape
  <2>3. ASSUME NEW k \in InChoice'
        PROVE  /\ k - 1 \in DOMAIN stack'
               /\ stack'[k].ctx = stack'[k - 1].ctx
               /\ stack'[k].min = 0 \/ stack'[k].max >= 1
    <3>1. k \in InChoice /\ k \in DOMAIN stack' /\ k \in DOMAIN stack /\ k # n
      BY <1>6, <1>8, <2>3 DEF InChoice
    <3>2. /\ k - 1 \in DOMAIN stack /\ stack[k].ctx = stack[k - 1].ctx
          /\ \/ stack[k].min = 0
             \/ stack[k].max >= 1
             \/ k = n
      BY <3>1 DEF Account, Shape, n
    <3>3. k - 1 \in DOMAIN stack'
      BY <1>3, <3>1, <3>2
    <3> QED BY <1>11, <3>1, <3>2, <3>3
  <2>4. ASSUME NEW k \in DOMAIN stack' \ InChoice'
        PROVE  stack'[k].todo # <<>> /\ stack'[k].todo[Len(stack'[k].todo)] = Settle
    <3>1. k \in DOMAIN stack \ InChoice /\ k # n
      BY <1>6, <1>8
    <3>2. stack[k].todo # <<>> /\ stack[k].todo[Len(stack[k].todo)] = Settle
      BY <3>1 DEF Account, Shape, n
    <3> QED BY <1>11, <3>2
  <2> QED BY <1>9, <2>1, <2>2, <2>3, <2>4 DEF Shape
<1>13. Asks'
  <2>1. got \subseteq Selection!Asked(stack[n - 1].ctx)
    BY <1>2, <1>4, <1>5 DEF Account, Asks
  <2>2. \A k \in DOMAIN stack' : /\ Owed(stack'[k]) \subseteq Selection!Parts(stack'[k].ctx)
                                 /\ Taken(stack'[k]) \subseteq Selection!Asked(stack'[k].ctx)
    BY <1>6, <1>11, <2>1 DEF Account, Asks
  <2> QED BY <1>10, <2>2 DEF Asks
<1>14. Blocking'
  <2>1. ASSUME NEW q \in Selected, NEW b \in Selection!Parts(q), Coming(b, q)
        PROVE  Coming(b, q)'
    <3>1. PICK k \in DOMAIN stack : stack[k].ctx = q /\ \E d \in Owed(stack[k]) : b \in PartsOf(d, q)
      BY <2>1 DEF Coming
    <3>2. k # n
      BY <1>4, <1>7, <3>1
    <3>3. k \in DOMAIN stack'
      BY <1>3, <3>2
    <3> QED BY <1>6, <1>11, <3>1, <3>3 DEF Coming
  <2> QED BY <1>1, <1>9, <1>10, <2>1 DEF Account, Blocking, Going
<1>15. Offer' \subseteq Offer
  <2>1. Offer' = UNION {Offered(stack'[k]) : k \in InChoice'}
    BY DEF Offer, Offered, Taken, Owed
  <2>2. ASSUME NEW k \in InChoice' PROVE Offered(stack'[k]) \subseteq Offer
    <3>1. k \in InChoice /\ k \in DOMAIN stack'
      BY <1>8, <2>2 DEF InChoice
    <3>2. Offered(stack[k]) \subseteq Offer /\ Offered(Top) \subseteq Offer
      BY <1>4, <3>1 DEF Offer
    <3>3. got \subseteq Offered(Top)
      BY <1>2 DEF Offered
    <3>4. Offered(stack'[k]) \subseteq Offered(stack[k]) \cup got
      BY <1>6, <1>11, <3>1 DEF Offered
    <3> QED BY <3>2, <3>3, <3>4
  <2> QED BY <2>1, <2>2
<1>16. ASSUME NEW k \in DOMAIN stack \ InChoice, NEW S \in SUBSET Package, Suits(k, S)'
       PROVE  Suits(k, S)
  <2>1. k # n /\ k \in DOMAIN stack'
    BY <1>3, <1>4
  <2>2. S \cap blocked = {} /\ Taken(stack'[k]) \subseteq S
        /\ \A d \in Owed(stack[k]) : MetBy(S, d, stack[k].ctx)
    BY <1>6, <1>9, <1>11, <1>16, <2>1 DEF Suits
  <2>3. Taken(stack[k]) \subseteq S /\ (k = n - 1 => got \subseteq S)
    BY <1>6, <2>1, <2>2
  <2>4. ASSUME k + 1 \in InChoice, stack[k + 1].min = 1 PROVE Offer \cap S # {}
    <3>1. CASE k + 1 = n
      <4>1. Top.min = 1 /\ k = n - 1
        BY <1>3, <1>4, <2>4, <3>1
      <4>2. got # {} /\ got \subseteq S
        BY <1>5, <2>3, <4>1
      <4>3. got \subseteq Offer
        BY <1>2, <1>4 DEF Offer, Offered
      <4> QED BY <4>2, <4>3
    <3>2. CASE k + 1 # n
      <4>1. k + 1 \in InChoice' /\ k + 1 \in DOMAIN stack'
        BY <1>8, <2>4, <3>2 DEF InChoice
      <4>2. stack'[k + 1].min = 1
        BY <1>11, <2>4, <4>1
      <4>3. Offer' \cap S # {}
        BY <1>16, <4>1, <4>2 DEF Suits
      <4> QED BY <1>15, <4>3
    <3> QED BY <3>1, <3>2
  <2> QED BY <2>2, <2>3, <2>4 DEF Suits
<1>17. Meeting'
  <2>1. ASSUME NEW r \in Selected, Promised(r) PROVE Promised(r)'
    <3>1. PICK k \in DOMAIN stack \ InChoice :
             /\ stack[k].ctx = r
             /\ \A S \in SUBSET Package : Suits(k, S) => Selection!Meets(S, r)
      BY <2>1 DEF Promised
    <3>2. \A S \in SUBSET Package : Suits(k, S)' => Selection!Meets(S, r)'
      BY <1>10, <1>16, <3>1
    <3>3. k \in DOMAIN stack'
      BY <1>3, <1>4, <3>1
    <3>4. k \in DOMAIN stack' \ InChoice' /\ stack'[k].ctx = r
      BY <1>8, <1>11, <3>1, <3>3
    <3> QED BY <3>2, <3>4 DEF Promised
  <2>2. ASSUME NEW r \in Selected, Fulfilled(r) PROVE Fulfilled(r)'
    BY <1>9, <1>10, <2>2 DEF Fulfilled
  <2> QED BY <1>1, <1>9, <2>1, <2>2 DEF Account, Meeting, Going
<1>18. Forced'
  <2>1. ASSUME NEW S \in SUBSET Package, Needed(S) PROVE Needed(S)'
    <3>1. /\ added \subseteq S /\ S \cap blocked = {} /\ Taken(Top) \subseteq S
          /\ \A k \in DOMAIN stack :
                Taken(stack[k]) \subseteq S /\ \A d \in Owed(stack[k]) : MetBy(S, d, stack[k].ctx)
      BY <1>4, <2>1 DEF Needed
    <3>2. \A k \in DOMAIN stack' :
             /\ Taken(stack'[k]) \subseteq S
             /\ \A d \in Owed(stack'[k]) : MetBy(S, d, stack'[k].ctx)
      BY <1>2, <1>6, <1>11, <3>1
    <3> QED BY <1>1, <1>9, <3>1, <3>2 DEF Needed
  <2>2. Started
    BY <1>1 DEF Started
  <2> QED BY <1>10, <2>1, <2>2 DEF Account, Forced
<1> QED BY <1>12, <1>13, <1>14, <1>17, <1>18 DEF Account

\* With no choice about it the innermost frame is the only kind there is.
LEMMA NoChoice ==
    ASSUME Inv, Shape, stack # <<>>, ~Top.conditional
    PROVE  InChoice = {}
<1> DEFINE n == Len(stack)
<1>1. n \in Nat /\ n \in DOMAIN stack /\ DOMAIN stack = 1 .. n
  BY TopType
<1>2. Top = stack[n]
  BY DEF Top
<1> HIDE DEF n
<1>3. n \notin InChoice
  BY <1>2 DEF InChoice
<1>4. \A k \in InChoice : k \in DOMAIN stack /\ (k < n \/ k = n)
  BY <1>1 DEF InChoice
<1> QED BY <1>1, <1>3, <1>4 DEF Shape

\* What the frame of a package begins with.
Opening(q, deps) == NewFrame(q, Append(deps, Settle), FALSE, 0, 0)

LEMMA FrameIs ==
    ASSUME NEW q, NEW deps \in Seq(Dep), NEW f, f = Opening(q, deps)
    PROVE  /\ f.ctx = q /\ ~f.conditional
           /\ Owed(f) = Elements(deps) /\ Taken(f) = {}
           /\ f.todo # <<>> /\ f.todo[Len(f.todo)] = Settle
<1>1. Settle \notin Dep
  BY DepAssumption DEF Settle
<1>2. deps \in Seq(Dep \cup {Settle}) /\ Elements(deps) \subseteq Dep
  BY DEF Elements
<1> DEFINE S == Dep \cup {Settle}
           u == Append(deps, Settle)
<1>3. u # <<>> /\ Elements(u) = Elements(deps) \cup {Settle} /\ u[Len(u)] = Settle
  <2>1. deps \in Seq(S) /\ Settle \in S
    BY <1>2
  <2> HIDE DEF S
  <2> QED BY <2>1, OneMore
<1> HIDE DEF u
<1>4. f.ctx = q /\ f.conditional = FALSE /\ f.todo = u /\ f.resolved = <<>>
  BY DEF NewFrame, Opening, u
<1>5. Taken(f) = {}
  <2>1. Elements(<<>>) = {}
    BY DEF Elements
  <2> QED BY <1>4, <2>1 DEF Taken
<1>6. Owed(f) = Elements(deps)
  BY <1>1, <1>2, <1>3, <1>4 DEF Owed
<1> QED BY <1>3, <1>4, <1>5, <1>6

\* A package is added: what it depends on is to be gone through.
LEMMA AccountAddPackage ==
    ASSUME Inv, Account, AddPackage
    PROVE  Account'
<1> PICK n \in Nat, p \in Package : n = Len(stack) /\ p = NextPackage
  BY PackageAdded
<1> DEFINE frame == FrameOf(p)
<1>1. /\ status = "running" /\ stack # <<>> /\ Top.todo # <<>>
      /\ UNCHANGED <<depends, entered, blocked, status>>
  BY DEF AddPackage, AtSettle
<1>2. /\ p \in Package /\ p \in Taken(Top) /\ ~Top.conditional
      /\ added' = added \cup {p}
      /\ n \in Nat \ {0} /\ DOMAIN stack = 1 .. n
      /\ DOMAIN stack' = 1 .. n + 1 /\ Len(stack') = n + 1
      /\ \A k \in DOMAIN stack : stack'[k] = stack[k]
      /\ stack'[n + 1] = frame
  BY PackageAdded DEF Taken
<1>3. Top = stack[n]
  BY DEF Top
<1>4. depends[p] \in Seq(Dep) /\ p \in Owner
  BY <1>2 DEF Inv, TypeOK, Owner
<1>5. /\ frame.ctx = p /\ ~frame.conditional
      /\ Owed(frame) = Elements(depends[p]) /\ Taken(frame) = {}
      /\ frame.todo # <<>> /\ frame.todo[Len(frame.todo)] = Settle
  <2> DEFINE deps == depends[p]
  <2>1. deps \in Seq(Dep) /\ frame = Opening(p, deps)
    BY <1>4 DEF FrameOf, Opening
  <2> HIDE DEF deps, frame
  <2>2. /\ frame.ctx = p /\ ~frame.conditional
        /\ Owed(frame) = Elements(deps) /\ Taken(frame) = {}
        /\ frame.todo # <<>> /\ frame.todo[Len(frame.todo)] = Settle
    BY <2>1, FrameIs
  <2> QED BY <2>2 DEF deps
<1>6. InChoice = {}
  BY <1>1, <1>2, NoChoice DEF Account
<1> HIDE DEF frame
<1>7. \A k \in DOMAIN stack' : k \in DOMAIN stack \/ k = n + 1
  BY <1>2
<1>8. \A k \in DOMAIN stack : k \in DOMAIN stack' /\ k # n + 1
  BY <1>2
<1>9. n + 1 \in DOMAIN stack'
  BY <1>2
<1>10. InChoice' = {}
  BY <1>2, <1>5, <1>6, <1>7 DEF InChoice
<1>11. Selected' = Selected \cup {p}
  BY <1>2 DEF Selected
<1>12. /\ \A q : /\ Selection!Parts(q)' = Selection!Parts(q)
                 /\ Selection!Asked(q)' = Selection!Asked(q)
       /\ \A S, q : Selection!Meets(S, q)' <=> Selection!Meets(S, q)
       /\ \A S : Selection!Solves(S)' <=> Selection!Solves(S)
       /\ Plain' <=> Plain
  BY <1>1, SameDepends
<1>13. Shape'
  <2>1. \A k \in DOMAIN stack' : stack'[k].ctx \in Selected'
    BY <1>2, <1>5, <1>7, <1>11 DEF Account, Shape
  <2>2. \A k \in DOMAIN stack : stack[k].todo # <<>> /\ stack[k].todo[Len(stack[k].todo)] = Settle
    <3>1. \A k \in DOMAIN stack : k = n => stack[k].todo # <<>>
      BY <1>1, <1>3
    <3> QED BY <1>6, <3>1 DEF Account, Shape
  <2>3. \A k \in DOMAIN stack' : stack'[k].todo # <<>> /\ stack'[k].todo[Len(stack'[k].todo)] = Settle
    BY <1>2, <1>5, <1>7, <2>2
  <2> QED BY <1>10, <2>1, <2>3 DEF Shape
<1>14. Asks'
  <2>1. Owed(frame) \subseteq Selection!Parts(p)
    BY <1>4, <1>5, PartsReach
  <2>2. \A k \in DOMAIN stack' : /\ Owed(stack'[k]) \subseteq Selection!Parts(stack'[k].ctx)
                                 /\ Taken(stack'[k]) \subseteq Selection!Asked(stack'[k].ctx)
    BY <1>2, <1>5, <1>7, <2>1 DEF Account, Asks
  <2> QED BY <1>12, <2>2 DEF Asks
<1>15. Blocking'
  <2>1. ASSUME NEW q \in Selected, NEW b \in Selection!Parts(q), Coming(b, q)
        PROVE  Coming(b, q)'
    BY <1>2, <1>8, <2>1 DEF Coming
  <2>2. ASSUME NEW b \in Selection!Parts(p) PROVE Coming(b, p)'
    <3>1. \E d \in Owed(frame) : b \in PartsOf(d, p)
      BY <1>4, <1>5, <2>2, PartsAre
    <3> QED BY <1>2, <1>5, <1>9, <3>1 DEF Coming
  <2> QED BY <1>1, <1>11, <1>12, <2>1, <2>2 DEF Account, Blocking, Going
<1>16. Meeting'
  <2>1. ASSUME NEW q \in Selected, Promised(q) PROVE Promised(q)'
    <3>1. PICK k \in DOMAIN stack \ InChoice :
             /\ stack[k].ctx = q
             /\ \A S \in SUBSET Package : Suits(k, S) => Selection!Meets(S, q)
      BY <2>1 DEF Promised
    <3>2. \A S \in SUBSET Package : Suits(k, S)' => Suits(k, S)
      BY <1>1, <1>2, <1>6 DEF Suits
    <3>3. k \in DOMAIN stack' \ InChoice' /\ stack'[k].ctx = q
      BY <1>2, <1>8, <1>10, <3>1
    <3>4. \A S \in SUBSET Package : Suits(k, S)' => Selection!Meets(S, q)'
      BY <1>12, <3>1, <3>2
    <3> QED BY <3>3, <3>4 DEF Promised
  <2>2. ASSUME NEW q \in Selected, Fulfilled(q) PROVE Fulfilled(q)'
    BY <1>1, <1>2, <1>12, <2>2 DEF Fulfilled
  <2>3. Promised(p)'
    <3>1. ASSUME NEW S \in SUBSET Package, Suits(n + 1, S)' PROVE Selection!Meets(S, p)'
      <4>1. \A d \in Owed(frame) : MetBy(S, d, p)
        BY <1>2, <1>5, <3>1 DEF Suits
      <4>2. Selection!Meets(S, p)
        BY <1>4, <1>5, <4>1, PartsAre
      <4> QED BY <1>12, <4>2
    <3>2. n + 1 \in DOMAIN stack' \ InChoice' /\ stack'[n + 1].ctx = p
      BY <1>2, <1>5, <1>9, <1>10
    <3> QED BY <3>1, <3>2 DEF Promised
  <2> QED BY <1>1, <1>11, <2>1, <2>2, <2>3 DEF Account, Meeting, Going
<1>17. Forced'
  <2>1. ASSUME NEW S \in SUBSET Package, Selection!Solves(S), Needed(S) PROVE Needed(S)'
    <3>1. /\ added \subseteq S /\ S \cap blocked = {}
          /\ \A k \in DOMAIN stack :
                Taken(stack[k]) \subseteq S /\ \A d \in Owed(stack[k]) : MetBy(S, d, stack[k].ctx)
      BY <2>1 DEF Needed
    <3>2. p \in S
      BY <1>2, <1>3, <3>1
    <3>3. Selection!Meets(S, p)
      BY <2>1, <3>2 DEF Selection!Solves
    <3>4. \A d \in Owed(frame) : MetBy(S, d, p)
      BY <1>4, <1>5, <3>3, PartsAre
    <3>5. \A k \in DOMAIN stack' :
             /\ Taken(stack'[k]) \subseteq S
             /\ \A d \in Owed(stack'[k]) : MetBy(S, d, stack'[k].ctx)
      BY <1>2, <1>5, <1>7, <3>1, <3>4
    <3> QED BY <1>1, <1>2, <3>1, <3>2, <3>5 DEF Needed
  <2>2. Started
    BY <1>1 DEF Started
  <2> QED BY <1>12, <2>1, <2>2 DEF Account, Forced
<1> QED BY <1>13, <1>14, <1>15, <1>16, <1>17 DEF Account

\* The dependencies of a package are gone through: they are met.
LEMMA AccountReturn ==
    ASSUME Inv, Account, Return
    PROVE  Account'
<1> DEFINE n == Len(stack)
<1>1. /\ status = "running" /\ stack # <<>> /\ Top.todo = <<>> /\ ~Top.conditional
      /\ stack' = Below /\ status' \in {"done", "running"}
      /\ UNCHANGED <<depends, entered, added, blocked>>
  BY DEF Return, AtEnd
<1>2. /\ n \in Nat \ {0} /\ n \in DOMAIN stack /\ DOMAIN stack = 1 .. n
      /\ DOMAIN stack' = 1 .. n - 1
      /\ \A k \in DOMAIN stack' : stack'[k] = stack[k]
  <2>1. /\ n \in Nat \ {0} /\ n \in DOMAIN stack /\ DOMAIN stack = 1 .. n
        /\ Below \in Seq(Frame) /\ Len(Below) = n - 1
        /\ \A k \in 1 .. n - 1 : Below[k] = stack[k]
    BY <1>1, TopType
  <2> HIDE DEF n, Below, Frame
  <2> QED BY <1>1, <2>1
<1>3. Top = stack[n]
  BY DEF Top
<1>4. InChoice = {}
  BY <1>1, NoChoice DEF Account
<1>5. Owed(Top) = {}
  BY <1>1 DEF Owed, Elements
<1>6. Taken(Top) \subseteq added
  BY <1>1, <1>2, <1>3, <1>4 DEF Account, Shape
<1>7. \A k \in DOMAIN stack : k = n \/ stack[k].todo # <<>>
  BY <1>4 DEF Account, Shape
<1> HIDE DEF n
<1>8. \A k \in DOMAIN stack' : k \in DOMAIN stack /\ k # n
  BY <1>2
<1>9. \A k \in DOMAIN stack : k # n => k \in DOMAIN stack'
  BY <1>2
<1>10. InChoice' = {} /\ Selected' = Selected
  BY <1>1, <1>2, <1>4, <1>8 DEF InChoice, Selected
<1>11. /\ \A q : /\ Selection!Parts(q)' = Selection!Parts(q)
                 /\ Selection!Asked(q)' = Selection!Asked(q)
       /\ \A S, q : Selection!Meets(S, q)' <=> Selection!Meets(S, q)
       /\ \A S : Selection!Solves(S)' <=> Selection!Solves(S)
       /\ Plain' <=> Plain
  BY <1>1, SameDepends
<1>12. Shape'
  <2>1. \A k \in DOMAIN stack' : stack'[k].ctx \in Selected
    BY <1>2, <1>8 DEF Account, Shape
  <2>2. \A k \in DOMAIN stack' : stack'[k].todo # <<>> /\ stack'[k].todo[Len(stack'[k].todo)] = Settle
    BY <1>2, <1>4, <1>7, <1>8 DEF Account, Shape
  <2> QED BY <1>10, <2>1, <2>2 DEF Shape
<1>13. Asks'
  BY <1>2, <1>8, <1>11 DEF Account, Asks
<1>14. Blocking'
  <2>1. ASSUME NEW q \in Selected, NEW b \in Selection!Parts(q), Coming(b, q)
        PROVE  Coming(b, q)'
    <3>1. PICK k \in DOMAIN stack : stack[k].ctx = q /\ \E d \in Owed(stack[k]) : b \in PartsOf(d, q)
      BY <2>1 DEF Coming
    <3>2. k # n
      BY <1>3, <1>5, <3>1
    <3> QED BY <1>2, <1>9, <3>1, <3>2 DEF Coming
  <2> QED BY <1>1, <1>10, <1>11, <2>1 DEF Account, Blocking, Going
<1>15. Meeting'
  <2>1. ASSUME NEW q \in Selected, Promised(q) PROVE Promised(q)' \/ Fulfilled(q)'
    <3>1. PICK k \in DOMAIN stack \ InChoice :
             /\ stack[k].ctx = q
             /\ \A S \in SUBSET Package : Suits(k, S) => Selection!Meets(S, q)
      BY <2>1 DEF Promised
    <3>2. CASE k = n
      <4>1. ASSUME NEW S \in SUBSET Package, added \subseteq S, S \cap blocked = {}
            PROVE  Selection!Meets(S, q)
        <5>1. Suits(k, S)
          BY <1>3, <1>4, <1>5, <1>6, <3>2, <4>1 DEF Suits
        <5> QED BY <3>1, <5>1
      <4> QED BY <1>1, <1>11, <4>1 DEF Fulfilled
    <3>3. CASE k # n
      <4>1. k \in DOMAIN stack' \ InChoice' /\ stack'[k].ctx = q
        BY <1>2, <1>9, <1>10, <3>1, <3>3
      <4>2. \A S \in SUBSET Package : Suits(k, S)' => Suits(k, S)
        BY <1>1, <1>2, <1>4, <4>1 DEF Suits
      <4>3. \A S \in SUBSET Package : Suits(k, S)' => Selection!Meets(S, q)'
        BY <1>11, <3>1, <4>2
      <4> QED BY <4>1, <4>3 DEF Promised
    <3> QED BY <3>2, <3>3
  <2>2. ASSUME NEW q \in Selected, Fulfilled(q) PROVE Fulfilled(q)'
    BY <1>1, <1>11, <2>2 DEF Fulfilled
  <2> QED BY <1>1, <1>10, <2>1, <2>2 DEF Account, Meeting, Going
<1>16. Forced'
  <2>1. ASSUME NEW S \in SUBSET Package, Needed(S) PROVE Needed(S)'
    BY <1>1, <1>2, <1>8, <2>1 DEF Needed
  <2>2. Started
    BY <1>1 DEF Started
  <2> QED BY <1>11, <2>1, <2>2 DEF Account, Forced
<1> QED BY <1>12, <1>13, <1>14, <1>15, <1>16 DEF Account

\* What the user asks for is to be gone through.
LEMMA AccountReadRequest ==
    ASSUME Inv, ReadRequest
    PROVE  Account'
<1> DEFINE request == Entries(TRUE) \o Entries(FALSE)
<1>1. request \in Seq(Dep)
  <2> DEFINE blockers == Entries(TRUE)
             others == Entries(FALSE)
  <2>1. blockers \in Seq(Dep) /\ others \in Seq(Dep)
    BY EntriesType
  <2> HIDE DEF blockers, others
  <2>2. blockers \o others \in Seq(Dep)
    BY <2>1
  <2> QED BY <2>2 DEF blockers, others
<1> PICK deps \in Seq(Dep) : deps = request
  BY <1>1
<1> DEFINE frame == Opening(Requested, deps)
<1>2. /\ status = "reading" /\ status' = "running" /\ stack' = <<frame>>
      /\ depends' = [depends EXCEPT ![Requested] = deps]
      /\ added = {} /\ blocked = {} /\ added' = added /\ blocked' = blocked
  BY DEF ReadRequest, Inv, Opening
<1> HIDE DEF request
<1>3. depends'[Requested] = deps
  BY <1>2 DEF Inv, TypeOK
<1>4. /\ frame.ctx = Requested /\ ~frame.conditional
      /\ Owed(frame) = Elements(deps) /\ Taken(frame) = {}
      /\ frame.todo # <<>> /\ frame.todo[Len(frame.todo)] = Settle
  <2> HIDE DEF frame
  <2>1. frame = Opening(Requested, deps)
    BY DEF frame
  <2> QED BY <2>1, FrameIs
<1> HIDE DEF frame
<1>5. DOMAIN stack' = {1} /\ stack'[1] = frame /\ Len(stack') = 1
  BY <1>2
<1>6. InChoice' = {} /\ Selected' = {Requested}
  BY <1>2, <1>4, <1>5 DEF InChoice, Selected
<1>7. Elements(deps) \subseteq Dep /\ Requested \in Owner
  BY DEF Elements, Owner
<1>8. Selection!Parts(Requested)' = UNION {PartsOf(d, Requested) : d \in Elements(deps)}
  BY <1>3 DEF Selection!Parts, Selection!Elements, Elements, PartsOf
<1>9. \A S : Selection!Meets(S, Requested)' <=> \A d \in Elements(deps) : MetBy(S, d, Requested)
  BY <1>3 DEF Selection!Meets, Selection!Elements, Elements, MetBy
<1>10. Shape'
  BY <1>4, <1>5, <1>6 DEF Shape
<1>11. Asks'
  <2>1. \A d \in Elements(deps) : d \in PartsOf(d, Requested)
    BY <1>7, PartsRule
  <2>2. Owed(frame) \subseteq Selection!Parts(Requested)'
    BY <1>4, <1>8, <2>1
  <2> QED BY <1>4, <1>5, <2>2 DEF Asks
<1>12. Blocking'
  <2>1. ASSUME NEW b \in Selection!Parts(Requested)' PROVE Coming(b, Requested)'
    <3>1. \E d \in Owed(frame) : b \in PartsOf(d, Requested)
      BY <1>4, <1>8, <2>1
    <3> QED BY <1>4, <1>5, <3>1 DEF Coming
  <2> QED BY <1>6, <2>1 DEF Blocking
<1>13. Meeting'
  <2>1. ASSUME NEW S \in SUBSET Package, Suits(1, S)' PROVE Selection!Meets(S, Requested)'
    <3>1. \A d \in Owed(frame) : MetBy(S, d, Requested)
      BY <1>4, <1>5, <2>1 DEF Suits
    <3> QED BY <1>4, <1>9, <3>1
  <2>2. 1 \in DOMAIN stack' \ InChoice' /\ stack'[1].ctx = Requested
    BY <1>4, <1>5, <1>6
  <2>3. Promised(Requested)'
    BY <2>1, <2>2 DEF Promised
  <2> QED BY <1>6, <2>3 DEF Meeting
<1>14. Forced'
  <2>1. ASSUME NEW S \in SUBSET Package, Selection!Solves(S)' PROVE Needed(S)'
    <3>1. Selection!Meets(S, Requested)'
      BY <2>1 DEF Selection!Solves
    <3>2. \A d \in Owed(frame) : MetBy(S, d, Requested)
      BY <1>4, <1>9, <3>1
    <3>3. \A k \in DOMAIN stack' :
             /\ Taken(stack'[k]) \subseteq S
             /\ \A d \in Owed(stack'[k]) : MetBy(S, d, stack'[k].ctx)
      BY <1>4, <1>5, <3>2
    <3> QED BY <1>2, <3>3 DEF Needed
  <2> QED BY <2>1 DEF Forced
<1> QED BY <1>10, <1>11, <1>12, <1>13, <1>14 DEF Account

LEMMA AccountInit == Init => Account
<1> SUFFICES ASSUME Init PROVE Account
  OBVIOUS
<1>1. stack = <<>> /\ status = "reading"
  BY DEF Init
<1>2. DOMAIN stack = {} /\ InChoice = {}
  BY <1>1 DEF InChoice
<1> QED BY <1>1, <1>2 DEF Account, Shape, Asks, Blocking, Meeting, Forced, Going, Started

\* Nothing but the request is there before it is gone through.
LEMMA AccountRequestFails ==
    ASSUME Inv, RequestFails
    PROVE  Account'
<1>1. stack' = <<>> /\ status' \in {"no package", "ambiguous"}
  BY DEF Inv, RequestFails, EntryError
<1>2. DOMAIN stack' = {}
  <2>1. stack' = <<>>
    BY <1>1
  <2>2. DOMAIN <<>> = {}
    OBVIOUS
  <2> QED BY <2>1, <2>2
<1>3. InChoice' = {}
  BY <1>2 DEF InChoice
<1> QED BY <1>1, <1>2, <1>3 DEF Account, Shape, Asks, Blocking, Meeting, Forced, Going, Started

LEMMA AccountStays ==
    ASSUME Account, UNCHANGED vars
    PROVE  Account'
<1>1. /\ UNCHANGED <<depends, added, blocked, stack, status>>
  BY DEF vars
<1>2. /\ \A q : /\ Selection!Parts(q)' = Selection!Parts(q)
                /\ Selection!Asked(q)' = Selection!Asked(q)
      /\ \A S, q : Selection!Meets(S, q)' <=> Selection!Meets(S, q)
      /\ \A S : Selection!Solves(S)' <=> Selection!Solves(S)
      /\ Plain' <=> Plain
  BY <1>1, SameDepends
<1>3. Shape' /\ Asks'
  BY <1>1, <1>2 DEF Account, Shape, Asks, InChoice, Selected
<1>4. Blocking'
  BY <1>1, <1>2 DEF Account, Blocking, Coming, Going, Selected
<1>5. \A k, S : Suits(k, S)' <=> Suits(k, S)
  BY <1>1 DEF Suits, Offer, InChoice
<1>6. \A q : (Promised(q)' <=> Promised(q)) /\ (Fulfilled(q)' <=> Fulfilled(q))
  BY <1>1, <1>2, <1>5 DEF Promised, Fulfilled, InChoice
<1>7. Meeting'
  BY <1>1, <1>6 DEF Account, Meeting, Going, Selected
<1>8. Forced'
  BY <1>1, <1>2 DEF Account, Forced, Needed, Started
<1> QED BY <1>3, <1>4, <1>7, <1>8 DEF Account

LEMMA AccountNext == Inv /\ Account /\ [Next]_vars => Account'
<1> SUFFICES ASSUME Inv, Account, [Next]_vars PROVE Account'
  OBVIOUS
<1>1. CASE RequestFails BY <1>1, AccountRequestFails
<1>2. CASE ReadRequest BY <1>2, AccountReadRequest
<1>3. CASE TakeAtom BY <1>3, AccountTakeAtom
<1>4. CASE TakeBlocker BY <1>4, AccountTakeBlocker
<1>5. CASE EnterAll \/ EnterCondition BY <1>5, AccountEnter
<1>6. CASE EnterChoice BY <1>6, AccountEnterChoice
<1>7. CASE Settled BY <1>7, AccountSettled
<1>8. CASE AddPackage BY <1>8, AccountAddPackage
<1>9. CASE Choose BY <1>9, AccountChoose
<1>10. CASE Return BY <1>10, AccountReturn
<1>11. CASE AtomMissing \/ BlockerFails \/ FoundBlocked \/ NothingToChoose \/ DependenciesFail
  BY <1>11, AccountFails
<1>12. CASE UNCHANGED vars BY <1>12, AccountStays
<1> QED BY <1>1, <1>2, <1>3, <1>4, <1>5, <1>6, <1>7, <1>8, <1>9, <1>10, <1>11, <1>12 DEF Next

LEMMA AccountAlways == Spec => [](Inv /\ Account)
BY InvInit, InvNext, AccountInit, AccountNext, PTL DEF Spec

-----------------------------------------------------------------------------
(* What it comes to.                                                       *)

\* When the frame of the request ends, nothing is left to be gone through.
LEMMA SolvedAtLast ==
    ASSUME Inv, Account, Return, status' = "done"
    PROVE  Selection!Solves(added)
<1>1. /\ stack' = <<>> /\ UNCHANGED <<depends, entered, added, blocked>>
  BY DEF Return
<1>2. added \subseteq Package /\ added \cap blocked = {}
  BY DEF Inv, TypeOK, NeverBlockedAndAdded
<1>3. Blocking' /\ Meeting' /\ Going'
  BY AccountReturn DEF Account, Going
<1>4. Selected' = Selected /\ DOMAIN stack' = {}
  BY <1>1 DEF Selected
<1>5. /\ \A q : Selection!Parts(q)' = Selection!Parts(q)
      /\ \A S, q : Selection!Meets(S, q)' <=> Selection!Meets(S, q)
  BY <1>1, SameDepends
<1>6. ASSUME NEW q \in Selected PROVE Selection!Meets(added, q)
  <2>1. ~Promised(q)'
    BY <1>4 DEF Promised
  <2>2. Fulfilled(q)'
    BY <1>3, <1>4, <2>1 DEF Meeting
  <2> QED BY <1>1, <1>2, <1>5, <2>2 DEF Fulfilled
<1>7. ASSUME NEW q \in Selected PROVE Selection!Unblocked(added, q)
  <2>1. ASSUME NEW b \in Selection!Parts(q), b.type = "blocker"
        PROVE  Selection!Found(b, q) \cap added = {}
    <3>1. ~Coming(b, q)'
      BY <1>4 DEF Coming
    <3>2. Selection!Found(b, q) \subseteq blocked
      BY <1>1, <1>3, <1>4, <1>5, <2>1, <3>1 DEF Blocking
    <3> QED BY <1>2, <3>2
  <2> QED BY <2>1 DEF Selection!Unblocked
<1> QED BY <1>6, <1>7 DEF Selection!Solves, Selected

\* A package that is added has been asked for.
LEMMA Selects ==
    ASSUME Inv, Account, AddPackage
    PROVE  \E p \in Package : Selection!Select(p)
<1>1. PICK p \in Package : p = NextPackage
  BY PackageAdded
<1>2. /\ p \notin added /\ p \in Taken(Top) /\ added' = added \cup {p}
  BY <1>1, PackageAdded DEF Taken
<1>3. status = "running" /\ status' = status /\ stack # <<>>
  BY DEF AddPackage, AtSettle
<1>4. Len(stack) \in DOMAIN stack
  BY <1>3, TopType
<1>5. Top = stack[Len(stack)]
  BY DEF Top
<1>6. Top.ctx \in added \cup {Requested} /\ p \in Selection!Asked(Top.ctx)
  BY <1>2, <1>4, <1>5 DEF Account, Shape, Asks, Selected
<1>7. Selection!Select(p)
  BY <1>2, <1>3, <1>6 DEF Selection!Select
<1> QED BY <1>7

LEMMA StepImplements ==
    ASSUME Inv, Account, [Next]_vars
    PROVE  [Selection!Next]_<<added, IF status \in {"reading", "running"} THEN "running"
                                     ELSE IF status = "done" THEN "done" ELSE "failed">>
<1> DEFINE outcome == IF status \in {"reading", "running"} THEN "running"
                      ELSE IF status = "done" THEN "done" ELSE "failed"
<1>1. CASE AddPackage
  BY <1>1, Selects DEF Selection!Next
<1>2. CASE Return
  <2>1. CASE status' = "done"
    <3>1. Selection!Succeed
      BY <1>2, <2>1, SolvedAtLast DEF Selection!Succeed, Return, AtEnd
    <3> QED BY <3>1 DEF Selection!Next
  <2>2. CASE status' # "done"
    BY <1>2, <2>2 DEF Return, AtEnd
  <2> QED BY <2>1, <2>2
<1>3. CASE AtomMissing \/ BlockerFails \/ FoundBlocked \/ NothingToChoose \/ DependenciesFail \/ RequestFails
  <2>1. /\ status \in {"reading", "running"} /\ status' \in Error /\ added' = added
    BY <1>3 DEF AtomMissing, BlockerFails, FoundBlocked, NothingToChoose, DependenciesFail,
                RequestFails, AtType, AtSettle, AtEnd, FailWith, Error, EntryError
  <2>2. Selection!Fail
    BY <2>1 DEF Selection!Fail, Error
  <2> QED BY <2>2 DEF Selection!Next
<1>4. CASE ReadRequest
  BY <1>4 DEF ReadRequest
<1>5. CASE TakeAtom \/ TakeBlocker \/ EnterAll \/ EnterCondition \/ EnterChoice \/ Settled \/ Choose
  BY <1>5 DEF TakeAtom, TakeBlocker, EnterAll, EnterCondition, EnterChoice, Settled, Choose
<1>6. CASE UNCHANGED vars
  BY <1>6 DEF vars
<1> QED BY <1>1, <1>2, <1>3, <1>4, <1>5, <1>6 DEF Next

\* The resolution implements its promise: every package that findDependencies is
\* called for is asked for by the user or a package before it, and when Resolve
\* comes back without an error, the dependencies of all that is in Resolution
\* are met, and nothing they block is in it.
THEOREM Solved == Spec => ImplementsSelection
<1>1. Init => Selection!Init
  BY DEF Init, Selection!Init
<1>2. Inv /\ Account /\ [Next]_vars
         => [Selection!Next]_<<added, IF status \in {"reading", "running"} THEN "running"
                                      ELSE IF status = "done" THEN "done" ELSE "failed">>
  BY StepImplements
<1> QED BY <1>1, <1>2, AccountAlways, PTL DEF Spec, ImplementsSelection, Selection!Spec

\* Without any choice to be made, Resolve reports a missing or a blocked package
\* only if no set of packages has all that the user and its members depend on
\* and nothing that they block: the order in which it goes through the
\* dependencies excludes no solution.
THEOREM NoneMissed == Spec => []FailsOnlyIfUnsolvable
<1>1. Inv /\ Account => FailsOnlyIfUnsolvable
  BY DEF Account, Forced, Started, Needed, FailsOnlyIfUnsolvable
<1> QED BY <1>1, AccountAlways, PTL
=============================================================================
