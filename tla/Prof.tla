-------------------------------- MODULE Prof --------------------------------
(***************************************************************************)
(* The profiler (src/prof.cpp): one ProfData, whose frames begin() and     *)
(* end() delimit, and the Prof objects of nested sections.  Times are left *)
(* out.                                                                    *)
(*                                                                         *)
(* The hash of a section is the XOR of the addresses of the names on the   *)
(* way to it.  It is the set of the names that are there an odd number of  *)
(* times: addresses are taken to have no other relation to each other.     *)
(***************************************************************************)
EXTENDS Integers, Sequences, FiniteSets, SequencesExt

CONSTANTS
    RootName, SectionNames,
    NoSection,                       \* the null pointer of a default ProfNode
    MaxFrames, MaxDepth, MaxNodes    \* bounds

VARIABLES
    active,         \* s_pCurProfData is set
    frame,          \* m_uFrame
    sections,       \* m_Sections: the name and the uFrame of each section, by hash
    tree, prevTree, \* m_RootNode and m_PrevRootNode
    curNode,        \* m_pCurNode
    curHash,        \* m_uCurHash
    profs,          \* the Prof objects of the sections that are open
    spoiled         \* history: a section was left in a frame that it was not entered in

profVars == <<active, frame, sections, tree, prevTree, curNode, curHash, profs, spoiled>>

\* A tree is the sequence of its nodes, the root first; a pointer to a node is its index.
Null == 0
Root == 1
Node(hash, parent, made) == [pSection |-> hash, parent |-> parent, made |-> made]

\* The root nodes of a new ProfData are there and have no section.
Init ==
    /\ active = FALSE /\ frame = 0 /\ sections = [h \in {} |-> h]
    /\ tree = <<Node(NoSection, Null, RootName)>> /\ prevTree = tree
    /\ curNode = Null /\ curHash = {} /\ profs = <<>> /\ spoiled = FALSE
-----------------------------------------------------------------------------
Xor(hash, name) == IF name \in hash THEN hash \ {name} ELSE hash \cup {name}

WithSection(hash, section) ==
    [h \in DOMAIN sections \cup {hash} |-> IF h = hash THEN section ELSE sections[h]]

\* Mutant: the sections of the frame that has just begun are kept, which has none yet.
OldOfNextFrame == {h \in DOMAIN sections : sections[h].uFrame /= frame + 1}

Old == {h \in DOMAIN sections : sections[h].uFrame /= frame}

\* begin(), which may be called while sections are open that were entered without a frame.
Begin ==
    /\ ~active /\ curNode = Null /\ frame < MaxFrames
    /\ active' = TRUE /\ frame' = frame + 1
    /\ curHash' = {RootName}
    /\ sections' = [h \in (DOMAIN sections \ Old) \cup {curHash'} |->
           IF h = curHash' THEN [name |-> RootName, uFrame |-> frame + 1] ELSE sections[h]]
    /\ prevTree' = tree
    /\ tree' = <<Node(curHash', Null, RootName)>>
    /\ curNode' = Root
    /\ UNCHANGED <<profs, spoiled>>

\* end(); the program has left the sections of the frame, as it asserts.
End ==
    /\ active /\ curNode = Root
    /\ active' = FALSE /\ curNode' = Null
    /\ UNCHANGED <<frame, sections, tree, prevTree, curHash, profs, spoiled>>

\* Prof::Prof without a frame.
EnterOutside ==
    /\ ~active /\ Len(profs) < MaxDepth
    /\ \E name \in SectionNames :
         profs' = Append(profs, [name |-> name, prevNode |-> Null, prevHash |-> {}, entered |-> FALSE])
    /\ UNCHANGED <<active, frame, sections, tree, prevTree, curNode, curHash, spoiled>>

\* Prof::Prof and subsectionEnter().
Enter ==
    /\ active /\ curNode /= Null /\ Len(profs) < MaxDepth /\ Len(tree) < MaxNodes
    /\ \E name \in SectionNames :
         LET hash == Xor(curHash, name) IN
         /\ profs' = Append(profs,
                [name |-> name, prevNode |-> curNode, prevHash |-> curHash, entered |-> TRUE])
         /\ curHash' = hash
         /\ sections' = WithSection(hash,
                [name |-> IF hash \in DOMAIN sections THEN sections[hash].name ELSE name,
                 uFrame |-> frame])
         /\ tree' = Append(tree, Node(hash, curNode, name))
    /\ curNode' = Len(tree')
    /\ UNCHANGED <<active, frame, prevTree, spoiled>>

Restore(prof) == curNode' = prof.prevNode /\ curHash' = prof.prevHash

\* Prof::~Prof and subsectionExit(): it asks whether there is a frame now.
Exit ==
    /\ profs /= <<>> /\ (active => curNode /= Null)
    /\ IF active THEN Restore(Last(profs)) ELSE UNCHANGED <<curNode, curHash>>
    /\ spoiled' = (spoiled \/ (active /\ ~Last(profs).entered))
    /\ profs' = Front(profs)
    /\ UNCHANGED <<active, frame, sections, tree, prevTree>>

Next == Begin \/ End \/ EnterOutside \/ Enter \/ Exit

Spec == Init /\ [][Next]_profVars
-----------------------------------------------------------------------------
Hashes == SUBSET (SectionNames \cup {RootName})

TypeOK ==
    /\ active \in BOOLEAN /\ frame \in 0..MaxFrames /\ spoiled \in BOOLEAN
    /\ DOMAIN sections \subseteq Hashes /\ curHash \in Hashes
    /\ curNode \in 0..Len(tree) /\ Len(tree) <= MaxNodes /\ Len(profs) <= MaxDepth
    /\ (curNode /= Null => active) /\ (active /\ curNode = Null => spoiled)

\* The names on the way to a node.
Way[k \in 0..MaxNodes] ==
    IF k \in {Null, Root} \/ k > Len(tree) THEN <<>> ELSE Append(Way[tree[k].parent], tree[k].made)

\* The names of the open sections that were entered in a frame, of the first k of all.
Entered[k \in 0..Len(profs)] ==
    IF k = 0 THEN <<>>
    ELSE IF profs[k].entered THEN Append(Entered[k - 1], profs[k].name) ELSE Entered[k - 1]

\* Once a frame has begun, the nodes of the present frame point to sections that are there,
\* and once two have begun, so do those of the last one, which prof_print follows: begin() has
\* not removed them.  Before that prof_print follows the null pointer of a default node.  And
\* in a frame the current node is that of the open sections, in their order, with their hash,
\* so that end() finds the root, as long as no section was left that was entered without a
\* frame: its destructor asks for the frame of now.
ProfileTree ==
    /\ frame >= 1 => \A n \in Range(tree) : n.pSection \in DOMAIN sections
    /\ frame >= 2 => \A n \in Range(prevTree) : n.pSection \in DOMAIN sections
    /\ active /\ ~spoiled =>
         /\ Way[curNode] = Entered[Len(profs)]
         /\ curHash = tree[curNode].pSection
=============================================================================
