--------------------------- MODULE CampaignProofs ---------------------------
(***************************************************************************)
(* The runs of a test and the file between them, for any mutexes, any      *)
(* number of runs and any bound on the orders: what a save writes and a    *)
(* later run reads, at whatever line the save is cut off.                  *)
(***************************************************************************)
EXTENDS Campaign, GraphFileProofs

(* Types of the state of a run; a node is written whose edges come next.    *)
RunTypes ==
    /\ mem \in GraphType /\ NoDangling(mem) /\ file \in FileType
    /\ run \in {"none", "up", "hung", "saving", "finalized", "exiting"}
    /\ line \in {"header", "node", "edges"} /\ cursor \in Nat
    /\ quiet \in BOOLEAN /\ disturbed \in BOOLEAN
    /\ run # "none" => Locks # {}
    /\ run = "saving" /\ line = "edges" => cursor \in mem.nodes

(* The loop of the driver: a result that is not 0 ends it, and "crashed" is *)
(* said of such a result only.                                              *)
DriverInv ==
    /\ loop \in {"off", "next", "wait", "ended"}
    /\ i \in 0 .. RUNS /\ log \in -2 .. RUNS /\ old \in -2 .. RUNS
    /\ rc \in {Absent, 0, 1}
    /\ loop \in {"next", "wait"} => i # 0
    /\ rc = 1 => loop = "ended"
    /\ verdict = "crashed" => rc = 1

(* The loop waits for a run that is on, and starts one when none is.        *)
Together ==
    /\ loop = "next" => run = "none"
    /\ loop = "wait" => run # "none"

(* Unless a save is on, disk is what any run would find.                    *)
DiskHolds == run # "saving" => \A junk \in Junk : Orders(Parse(file, junk)) = disk

Done == {a \in mem.nodes : a <= cursor}
Before == {a \in mem.nodes : a < cursor}

(* A save that nothing disturbed: the nodes up to the cursor can be read    *)
(* back, whatever follows; between its two lines the last node cannot yet.  *)
NodesSaved ==
    /\ file.n = Cardinality(mem.nodes)
    /\ ReadsAs(file, mem, Done, Len(file.pairs) + 1)

HalfSaved ==
    /\ file.n = Cardinality(mem.nodes)
    /\ Len(file.pairs) \in Nat \ {0}
    /\ file.pairs[Len(file.pairs)] = <<cursor, Cardinality(Neighbours(mem, cursor))>>
    /\ ReadsAs(file, mem, Before, Len(file.pairs))

SaveGoesOn ==
    run = "saving" /\ quiet =>
        /\ line = "header" => file = NoFile /\ cursor = 0
        /\ line = "node" => NodesSaved
        /\ line = "edges" => HalfSaved

(* What the runs of the test recorded is in the graph of the run that is    *)
(* on, and in the file when the next one starts.                            *)
Knowledge ==
    /\ quiet \/ disturbed
    /\ ~ disturbed => /\ loop = "next" => learned \subseteq disk
                      /\ loop = "wait" => learned \subseteq Orders(mem)

CampaignInv ==
    /\ RunTypes /\ DriverInv /\ Together
    /\ DiskHolds /\ SaveGoesOn /\ SavedExactly /\ Knowledge
-----------------------------------------------------------------------------
(* The file that is missing is read as the empty graph.                     *)
LEMMA MissingFile ==
    /\ NoFile \in FileType
    /\ \A junk : Parse(NoFile, junk) = Empty
<1>1. Cardinality(Locks) \in Nat
  BY LocksAssumption, FS_CardinalityType
<1>2. <<>> \in Text
  BY EmptySeq DEF Text
<1> QED
  BY <1>1, <1>2 DEF NoFile, FileType, Parse

(* A set of mutexes is finite.                                              *)
LEMMA NodesFinite ==
    ASSUME NEW gr \in GraphType
    PROVE  /\ gr.nodes \subseteq Locks /\ IsFiniteSet(gr.nodes)
           /\ Cardinality(gr.nodes) \in 0 .. Cardinality(Locks)
           /\ HeaderLine(gr) \in FileType
<1>1. gr.nodes \in SUBSET Locks
  BY DEF GraphType
<1>2. /\ IsFiniteSet(gr.nodes) /\ Cardinality(gr.nodes) <= Cardinality(Locks)
  BY <1>1, LocksAssumption, FS_Subset
<1>3. Cardinality(gr.nodes) \in Nat /\ Cardinality(Locks) \in Nat
  BY <1>2, LocksAssumption, FS_CardinalityType
<1>4. <<>> \in Text
  BY EmptySeq DEF Text
<1> QED
  BY <1>1, <1>2, <1>3, <1>4 DEF HeaderLine, FileType

(* A save that is over and was not disturbed is read as the graph.          *)
LEMMA SavedWhole ==
    ASSUME RunTypes, NodesSaved, After = {}, NEW junk \in Junk
    PROVE  Parse(file, junk) = mem
<1>1. \A a \in mem.nodes : a \in Nat
  BY NodesFinite, LocksAssumption DEF RunTypes
<1>2. Done = mem.nodes
  BY <1>1 DEF RunTypes, Done, After
<1> QED
  BY <1>2, ReadsWhole DEF RunTypes, NodesSaved

(* A save that is cut off at any line leaves no order that was not saved.   *)
LEMMA SavedPart ==
    ASSUME RunTypes, SaveGoesOn, run = "saving", quiet, NEW junk \in Junk
    PROVE  Orders(Parse(file, junk)) \subseteq Orders(mem)
<1>0. Len(file.pairs) \in Nat
  BY LenProperties DEF RunTypes, FileType, Text
<1>1. CASE line = "header"
  <2>1. Parse(file, junk) = Empty
    BY <1>1, MissingFile DEF SaveGoesOn
  <2> QED
    BY <2>1, EmptyGraph
<1>2. CASE line = "node"
  <2>1. NodesSaved /\ Done \in SUBSET mem.nodes /\ mem \in GraphType /\ file \in FileType
    BY <1>2 DEF SaveGoesOn, Done, RunTypes
  <2>2. Len(file.pairs) + 1 \in Nat /\ Len(file.pairs) + 1 >= Len(file.pairs)
    BY <1>0
  <2> QED
    BY <2>1, <2>2, ReadsTorn DEF NodesSaved
<1>3. CASE line = "edges"
  <2>1. HalfSaved /\ Before \in SUBSET mem.nodes /\ mem \in GraphType /\ file \in FileType
    BY <1>3 DEF SaveGoesOn, Before, RunTypes
  <2>2. Len(file.pairs) >= Len(file.pairs)
    BY <1>0
  <2> QED
    BY <1>0, <2>1, <2>2, ReadsTorn DEF HalfSaved
<1> QED
  BY <1>1, <1>2, <1>3 DEF RunTypes

(* What the history variable disk is set to is what any run would find.     *)
LEMMA StoredFound ==
    ASSUME RunTypes, run # "none", NEW junk \in Junk
    PROVE  Orders(Parse(file, junk)) = Stored
<1>1. (CHOOSE j \in Junk : TRUE) \in Junk
  OBVIOUS
<1> QED
  BY <1>1, JunkIrrelevant DEF Stored, RunTypes
-----------------------------------------------------------------------------
(* The invariant is inductive.                                              *)
LEMMA CampaignInitial == Init => CampaignInv
<1> SUFFICES ASSUME Init PROVE CampaignInv
  OBVIOUS
<1>1. RunTypes
  BY EmptyGraph, MissingFile DEF Init, RunTypes
<1>2. DriverInv /\ Together /\ Knowledge /\ SaveGoesOn /\ SavedExactly
  BY RunsAssumption DEF Init, DriverInit, DriverInv, Absent, Together, Knowledge, SaveGoesOn,
     SavedExactly
<1>3. DiskHolds
  BY EmptyGraph, MissingFile DEF Init, DiskHolds
<1> QED
  BY <1>1, <1>2, <1>3 DEF CampaignInv

(* What the steps of the system do to the driver.                           *)
LEMMA DriverSteps ==
    ASSUME Next
    PROVE  \/ LoopRuns \/ StartTest \/ StopTest \/ Log
           \/ (\E ret \in {0, 1} : LoopContinues(ret)) \/ UNCHANGED driverVars
BY DEF Next, DriverRun, ManualRun, Record, Touch, Hang, Finalize, Destructor, Open, WriteHeader,
       WriteNode, WriteEdges, Written, Close, Exit, Kill, Gone, Start, Stop, LogCommand

LEMMA DriverInductive ==
    ASSUME DriverInv, Next
    PROVE  DriverInv'
<1>1. CASE LoopRuns
  BY <1>1, RunsAssumption DEF LoopRuns, DriverInv, Absent
<1>2. CASE StartTest
  BY <1>2, RunsAssumption DEF StartTest, DriverInv, Absent
<1>3. CASE StopTest
  BY <1>3, RunsAssumption DEF StopTest, DriverInv, Absent
<1>4. CASE Log
  BY <1>4 DEF Log, Judge, DriverInv, Absent
<1>5. ASSUME NEW ret \in {0, 1}, LoopContinues(ret)
      PROVE  DriverInv'
  BY <1>5, RunsAssumption DEF LoopContinues, DriverInv, Absent
<1>6. CASE UNCHANGED driverVars
  BY <1>6 DEF driverVars, DriverInv
<1> QED
  BY <1>1, <1>2, <1>3, <1>4, <1>5, <1>6, DriverSteps

LEMMA LoadStep ==
    ASSUME CampaignInv, Load, \/ LoopRuns
                              \/ loop \in {"off", "ended"} /\ UNCHANGED driverVars
    PROVE  RunTypes' /\ Together' /\ DiskHolds' /\ SaveGoesOn' /\ SavedExactly' /\ Knowledge'
<1>1. PICK junk \in Junk : mem' = Parse(file, junk)
  BY DEF Load
<1>2. mem' \in GraphType /\ NoDangling(mem') /\ Orders(mem') = disk
  <2>1. Orders(Parse(file, junk)) = disk
    BY DEF CampaignInv, DiskHolds, Load
  <2> QED
    BY <1>1, <2>1, ParseGraph DEF CampaignInv, RunTypes
<1>3. Locks # {}
  BY <1>1 DEF Junk
<1>4. RunTypes'
  BY <1>2, <1>3 DEF CampaignInv, RunTypes, Load
<1>5. Together'
  BY DEF CampaignInv, Together, Load, LoopRuns, driverVars
<1>6. DiskHolds'
  BY DEF CampaignInv, DiskHolds, Load
<1>7. SaveGoesOn' /\ SavedExactly'
  BY DEF Load, SaveGoesOn, SavedExactly
<1>8. Knowledge'
  BY <1>2 DEF CampaignInv, Knowledge, Load, LoopRuns, driverVars
<1> QED
  BY <1>4, <1>5, <1>6, <1>7, <1>8

(* A thread changes the graph: a save that is on is disturbed.              *)
LEMMA DisturbStep ==
    ASSUME CampaignInv, Alive, Disturbs,
           UNCHANGED <<file, run, line, cursor, final, disk, driverVars>>,
           mem' \in GraphType, NoDangling(mem'), mem.nodes \subseteq mem'.nodes,
           Orders(mem) \subseteq Orders(mem'),
           learned' \subseteq learned \cup Orders(mem')
    PROVE  RunTypes' /\ Together' /\ DiskHolds' /\ SaveGoesOn' /\ SavedExactly' /\ Knowledge'
<1>1. RunTypes'
  BY DEF CampaignInv, RunTypes, Disturbs
<1>2. Together' /\ DiskHolds'
  BY DEF CampaignInv, Together, DiskHolds, driverVars
<1>3. SaveGoesOn' /\ SavedExactly'
  BY DEF SaveGoesOn, SavedExactly, Alive, Disturbs
<1>4. Knowledge'
  BY DEF CampaignInv, Knowledge, Together, Disturbs, Alive, driverVars, RunTypes
<1> QED
  BY <1>1, <1>2, <1>3, <1>4

(* A recursive mutex adds an edge to itself and no order.                   *)
LEMMA RecordStep ==
    ASSUME CampaignInv, Record
    PROVE  /\ RunTypes' /\ Together' /\ DiskHolds' /\ SaveGoesOn' /\ SavedExactly' /\ Knowledge'
           /\ \/ Orders(mem') = Orders(mem)
              \/ \E e \in Pairs : e[1] # e[2] /\ Orders(mem') = Orders(mem) \cup {e}
<1>1. PICK e \in Pairs : /\ mem' = AddEdge(mem, e[1], e[2], 1)
                         /\ learned' = learned \cup ({e} \cap Orders(mem'))
  BY DEF Record
<1>2. e[1] \in Locks /\ e[2] \in Locks /\ e = <<e[1], e[2]>> /\ mem \in GraphType
  BY DEF Pairs, CampaignInv, RunTypes
<1>3. /\ mem' \in GraphType /\ NoDangling(mem') /\ mem'.nodes = mem.nodes \cup {e[1], e[2]}
  <2>1. NoDangling(mem)
    BY DEF CampaignInv, RunTypes
  <2> QED
    BY <1>1, <1>2, <2>1, AddEdgeGraph
<1>4. Orders(mem') = IF e[1] = e[2] THEN Orders(mem) ELSE Orders(mem) \cup {e}
  BY <1>1, <1>2, AddEdgeOrders
<1>5. RunTypes' /\ Together' /\ DiskHolds' /\ SaveGoesOn' /\ SavedExactly' /\ Knowledge'
  <2>1. /\ mem.nodes \subseteq mem'.nodes /\ Orders(mem) \subseteq Orders(mem')
        /\ learned' \subseteq learned \cup Orders(mem')
    BY <1>1, <1>3, <1>4
  <2> QED
    BY <1>3, <2>1, DisturbStep DEF Record
<1> QED
  BY <1>1, <1>4, <1>5

LEMMA TouchStep ==
    ASSUME CampaignInv, Touch
    PROVE  /\ RunTypes' /\ Together' /\ DiskHolds' /\ SaveGoesOn' /\ SavedExactly' /\ Knowledge'
           /\ Orders(mem') = Orders(mem)
<1>1. PICK a \in Locks \ mem.nodes : mem' = GetNode(mem, a)
  BY DEF Touch
<1>2. mem \in GraphType /\ NoDangling(mem)
  BY DEF CampaignInv, RunTypes
<1>3. /\ mem' \in GraphType /\ NoDangling(mem') /\ mem'.nodes = mem.nodes \cup {a}
      /\ Orders(mem') = Orders(mem)
  BY <1>1, <1>2, GetNodeGraph
<1>4. /\ mem.nodes \subseteq mem'.nodes /\ Orders(mem) \subseteq Orders(mem')
      /\ learned' \subseteq learned \cup Orders(mem')
  BY <1>3 DEF Touch
<1> QED
  BY <1>3, <1>4, DisturbStep DEF Touch

LEMMA HangStep ==
    ASSUME CampaignInv, Hang
    PROVE  RunTypes' /\ Together' /\ DiskHolds' /\ SaveGoesOn' /\ SavedExactly' /\ Knowledge'
<1>1. RunTypes'
  BY DEF CampaignInv, RunTypes, Hang
<1>2. Together' /\ DiskHolds' /\ SaveGoesOn' /\ SavedExactly' /\ Knowledge'
  BY DEF CampaignInv, Together, DiskHolds, SaveGoesOn, SavedExactly, Knowledge, Hang, driverVars
<1> QED
  BY <1>1, <1>2

LEMMA OpenStep ==
    ASSUME CampaignInv, run \in {"up", "finalized"}, NEW f, Open(f)
    PROVE  RunTypes' /\ Together' /\ DiskHolds' /\ SaveGoesOn' /\ SavedExactly' /\ Knowledge'
<1>1. RunTypes'
  BY MissingFile DEF CampaignInv, RunTypes, Open
<1>2. Together' /\ DiskHolds' /\ SavedExactly' /\ Knowledge'
  BY DEF CampaignInv, Together, DiskHolds, SavedExactly, Knowledge, Open, driverVars
<1>3. SaveGoesOn'
  BY DEF Open, SaveGoesOn
<1> QED
  BY <1>1, <1>2, <1>3

(* A line of a save leaves everything but the file and the progress alone.  *)
LEMMA WrittenStep ==
    ASSUME CampaignInv, run = "saving", Written
    PROVE  Together' /\ DiskHolds' /\ SavedExactly' /\ Knowledge'
BY DEF CampaignInv, Together, DiskHolds, SavedExactly, Knowledge, Written, driverVars

LEMMA WriteHeaderStep ==
    ASSUME CampaignInv, WriteHeader
    PROVE  RunTypes' /\ SaveGoesOn'
<1>1. mem \in GraphType /\ HeaderLine(mem) \in FileType /\ mem.nodes \subseteq Locks
  BY NodesFinite DEF CampaignInv, RunTypes
<1>2. RunTypes'
  BY <1>1 DEF CampaignInv, RunTypes, WriteHeader, Written
<1>3. SaveGoesOn'
  <2> SUFFICES ASSUME quiet PROVE NodesSaved'
    BY DEF SaveGoesOn, WriteHeader, Written
  <2>1. cursor = 0
    BY DEF CampaignInv, SaveGoesOn, WriteHeader
  <2>2. Done' = {}
    <3>1. \A a \in mem.nodes : ~ (a <= 0)
      <4> SUFFICES ASSUME NEW a \in mem.nodes PROVE ~ (a <= 0)
        OBVIOUS
      <4>1. a \in Nat \ {0}
        BY <1>1, LocksAssumption
      <4> QED
        BY <4>1
    <3> QED
      BY <2>1, <3>1 DEF Done, WriteHeader, Written
  <2>3. file'.n = Cardinality(mem.nodes) /\ file'.pairs = <<>> /\ file' = HeaderLine(mem)
    BY DEF WriteHeader, HeaderLine
  <2>4. ReadsAs(file', mem, {}, 1)
    BY <1>1, <2>3, ReadsHeader
  <2>5. Len(file'.pairs) + 1 = 1
    BY <2>3
  <2> QED
    BY <2>2, <2>3, <2>4, <2>5 DEF NodesSaved, WriteHeader, Written
<1> QED
  BY <1>2, <1>3

(* The node that is written next is the first behind the cursor.            *)
LEMMA NextNode ==
    ASSUME CampaignInv, WriteNode
    PROVE  /\ cursor' \in mem.nodes /\ cursor' \in Locks /\ cursor' \in Nat
           /\ {a \in mem.nodes : a < cursor'} = Done
<1>1. mem.nodes \subseteq Locks /\ After \subseteq mem.nodes /\ After \subseteq Nat /\ cursor \in Nat
  <2>1. mem.nodes \subseteq Locks
    BY NodesFinite DEF CampaignInv, RunTypes
  <2> QED
    BY <2>1, LocksAssumption DEF After, CampaignInv, RunTypes
<1>2. After # {}
  BY DEF WriteNode
<1>3. \E a \in After : \A b \in After : a <= b
  BY <1>1, <1>2, LeastNumber
<1>4. cursor' \in After /\ \A b \in After : cursor' <= b
  BY <1>3 DEF WriteNode
<1>5. ASSUME NEW a \in mem.nodes PROVE a < cursor' <=> a <= cursor
  <2>1. a \in Nat /\ cursor' \in Nat /\ cursor' > cursor
    BY <1>1, <1>4, LocksAssumption DEF After
  <2>2. a > cursor => cursor' <= a
    BY <1>4 DEF After
  <2> QED
    BY <1>1, <2>1, <2>2
<1> QED
  BY <1>1, <1>4, <1>5 DEF Done

LEMMA WriteNodeStep ==
    ASSUME CampaignInv, WriteNode
    PROVE  RunTypes' /\ SaveGoesOn'
<1> DEFINE l == NodeLine(mem, cursor')
<1>1. /\ mem \in GraphType /\ file \in FileType /\ cursor' \in mem.nodes
      /\ cursor' \in Locks /\ cursor' \in Nat
  BY NextNode DEF CampaignInv, RunTypes
<1>2. l \in Text /\ Len(l) = 1 /\ l[1] = <<cursor', Cardinality(Neighbours(mem, cursor'))>>
  BY <1>1, LineTypes
<1>3. file' = Longer(file, l)
  BY DEF WriteNode, Longer
<1> HIDE DEF l
<1>4. file' \in FileType /\ file'.n = file.n /\ file'.pairs = file.pairs \o l
  BY <1>1, <1>2, <1>3, LongerFile
<1>5. RunTypes'
  BY <1>1, <1>4 DEF CampaignInv, RunTypes, WriteNode, Written
<1>6. SaveGoesOn'
  <2> SUFFICES ASSUME quiet PROVE HalfSaved'
    BY DEF SaveGoesOn, WriteNode, Written
  <2>1. NodesSaved
    BY DEF CampaignInv, SaveGoesOn, WriteNode
  <2>2. file.pairs \in Text
    BY <1>1 DEF FileType
  <2>3. /\ Len(file'.pairs) = Len(file.pairs) + 1 /\ Len(file.pairs) \in Nat
        /\ file'.pairs[Len(file.pairs) + 1] = l[1]
    <3>1. /\ Len(file.pairs \o l) = Len(file.pairs) + Len(l) /\ Len(file.pairs) \in Nat
          /\ \A k \in 1 .. Len(l) : (file.pairs \o l)[Len(file.pairs) + k] = l[k]
      BY <1>2, <2>2, LinesBehind
    <3> QED
      BY <1>2, <1>4, <3>1
  <2>4. ReadsAs(file', mem, Done, Len(file.pairs) + 1)
    BY <1>1, <1>2, <1>3, <2>1, ReadsLonger DEF NodesSaved
  <2>5. Before' = Done
    BY NextNode DEF Before, WriteNode, Written
  <2>6. file'.n = Cardinality(mem.nodes)
    BY <1>4, <2>1 DEF NodesSaved
  <2>7. /\ Len(file'.pairs) \in Nat \ {0}
        /\ file'.pairs[Len(file'.pairs)] = <<cursor', Cardinality(Neighbours(mem, cursor'))>>
        /\ ReadsAs(file', mem, Before', Len(file'.pairs))
    BY <1>2, <2>3, <2>4, <2>5
  <2> QED
    BY <2>6, <2>7 DEF HalfSaved, WriteNode, Written
<1> QED
  BY <1>5, <1>6

LEMMA WriteEdgesStep ==
    ASSUME CampaignInv, WriteEdges
    PROVE  RunTypes' /\ SaveGoesOn'
<1>1. /\ mem \in GraphType /\ file \in FileType /\ cursor \in mem.nodes
      /\ cursor \in Nat /\ mem.nodes \subseteq Locks
  BY NodesFinite DEF CampaignInv, RunTypes, WriteEdges
<1>2. PICK l \in EdgesLines(mem, cursor) : file' = Longer(file, l)
  BY DEF WriteEdges, Longer
<1>3. l \in Text
  BY <1>1, LineTypes
<1>4. file' \in FileType /\ file'.n = file.n
  BY <1>1, <1>2, <1>3, LongerFile
<1>5. RunTypes'
  BY <1>1, <1>4 DEF CampaignInv, RunTypes, WriteEdges, Written
<1>6. SaveGoesOn'
  <2> SUFFICES ASSUME quiet PROVE NodesSaved'
    BY DEF SaveGoesOn, WriteEdges, Written
  <2>1. HalfSaved
    BY DEF CampaignInv, SaveGoesOn, WriteEdges
  <2>2. \A a \in mem.nodes : a \in Nat
    BY <1>1, LocksAssumption
  <2>3. Before \in SUBSET Locks /\ cursor \in Locks \ Before
    BY <1>1 DEF Before
  <2>4. Before \cup {cursor} = Done
    BY <1>1, <2>2 DEF Before, Done
  <2>5. ReadsAs(file', mem, Before \cup {cursor}, Len(file'.pairs) + 1)
    BY <1>1, <1>2, <2>1, <2>3, ReadsNode DEF HalfSaved
  <2>6. Done' = Done
    BY DEF Done, WriteEdges, Written
  <2> QED
    BY <1>4, <2>1, <2>4, <2>5, <2>6 DEF NodesSaved, HalfSaved, WriteEdges, Written
<1> QED
  BY <1>5, <1>6

LEMMA CloseStep ==
    ASSUME CampaignInv, Close
    PROVE  /\ RunTypes' /\ Together' /\ DiskHolds' /\ SaveGoesOn' /\ SavedExactly' /\ Knowledge'
           /\ quiet => disk' = Orders(mem)
<1>0. RunTypes /\ run = "saving" /\ Locks # {}
  BY DEF CampaignInv, RunTypes, Close
<1>1. RunTypes'
  BY DEF CampaignInv, RunTypes, Close
<1>2. \A junk \in Junk : Orders(Parse(file, junk)) = Stored
  BY <1>0, StoredFound
<1>3. DiskHolds'
  BY <1>2 DEF DiskHolds, Close
<1>4. ASSUME quiet PROVE \A junk \in Junk : Parse(file, junk) = mem
  <2>1. NodesSaved /\ After = {}
    BY <1>4 DEF CampaignInv, SaveGoesOn, Close
  <2> QED
    BY <1>0, <2>1, SavedWhole
<1>5. SavedExactly'
  BY <1>4 DEF SavedExactly, Close
<1>6. ASSUME quiet PROVE disk' = Orders(mem)
  <2>1. PICK a : a \in Locks
    BY <1>0
  <2>2. <<a, 0>> \in Junk
    BY <2>1 DEF Junk
  <2> QED
    BY <1>2, <1>4, <1>6, <2>2 DEF Close
<1>7. Together' /\ SaveGoesOn' /\ Knowledge'
  BY DEF CampaignInv, Together, SaveGoesOn, Knowledge, Close, driverVars
<1> QED
  BY <1>1, <1>3, <1>5, <1>6, <1>7

(* The end of a run.  Only a run that exits lets the loop go on, and it has *)
(* saved what it knew.                                                      *)
LEMMA GoneStep ==
    ASSUME CampaignInv, run # "none", NEW ret \in {0, 1}, ret = 0 => run = "exiting", Gone(ret)
    PROVE  /\ RunTypes' /\ Together' /\ DiskHolds' /\ SaveGoesOn' /\ SavedExactly' /\ Knowledge'
           /\ run = "saving" /\ quiet => disk' \subseteq Orders(mem)
<1>0. RunTypes /\ Locks # {}
  BY DEF CampaignInv, RunTypes
<1>1. RunTypes'
  BY EmptyGraph DEF CampaignInv, RunTypes, Gone
<1>2. \A junk \in Junk : Orders(Parse(file, junk)) = Stored
  BY <1>0, StoredFound
<1>3. DiskHolds'
  BY <1>2 DEF CampaignInv, DiskHolds, Gone
<1>4. Together' /\ SaveGoesOn' /\ SavedExactly'
  BY DEF CampaignInv, Together, SaveGoesOn, SavedExactly, Gone, LoopContinues, driverVars
<1>5. PICK junk \in Junk : TRUE
  <2>1. PICK a : a \in Locks
    BY <1>0
  <2>2. <<a, 0>> \in Junk
    BY <2>1 DEF Junk
  <2> QED
    BY <2>2
<1>6. Knowledge'
  <2>1. quiet' \/ disturbed'
    BY DEF Gone
  <2>2. ASSUME ~ disturbed', loop' = "next" PROVE learned' \subseteq disk'
    <3>1. loop # "next"
      BY DEF CampaignInv, Together
    <3>2. loop = "wait" /\ ret = 0
      BY <2>2, <3>1 DEF Gone, LoopContinues, driverVars
    <3>3. run = "exiting" /\ ~ disturbed /\ quiet
      BY <2>2, <3>2 DEF Gone, CampaignInv, Knowledge
    <3>4. Orders(mem) = disk
      BY <1>5, <3>3 DEF CampaignInv, SavedExactly, DiskHolds
    <3>5. learned \subseteq Orders(mem)
      BY <3>2, <3>3 DEF CampaignInv, Knowledge
    <3> QED
      BY <3>3, <3>4, <3>5 DEF Gone
  <2>3. loop' # "wait"
    BY DEF Gone, LoopContinues, driverVars
  <2> QED
    BY <2>1, <2>2, <2>3 DEF Knowledge
<1>7. ASSUME run = "saving", quiet PROVE disk' \subseteq Orders(mem)
  <2>1. disk' = Orders(Parse(file, junk))
    BY <1>2, <1>5, <1>7 DEF Gone
  <2> QED
    BY <1>0, <1>5, <1>7, <2>1, SavedPart DEF CampaignInv
<1> QED
  BY <1>1, <1>3, <1>4, <1>6, <1>7

LEMMA NewDirectoryStep ==
    ASSUME NewDirectory, loop' \in {"off", "next"}
    PROVE  RunTypes' /\ Together' /\ DiskHolds' /\ SaveGoesOn' /\ SavedExactly' /\ Knowledge'
<1>1. RunTypes'
  BY EmptyGraph, MissingFile DEF RunTypes, NewDirectory
<1>2. DiskHolds'
  BY EmptyGraph, MissingFile DEF DiskHolds, NewDirectory
<1>3. Together' /\ SaveGoesOn' /\ SavedExactly' /\ Knowledge'
  BY DEF Together, SaveGoesOn, SavedExactly, Knowledge, NewDirectory
<1> QED
  BY <1>1, <1>2, <1>3
-----------------------------------------------------------------------------
(* Every step of the system preserves the invariant.                        *)
LEMMA CampaignInductive ==
    ASSUME CampaignInv, [Next]_vars
    PROVE  CampaignInv'
<1> USE DEF CampaignInv
<1>1. CASE UNCHANGED vars
  <2>1. RunTypes' /\ DriverInv' /\ Together' /\ DiskHolds' /\ Knowledge' /\ SavedExactly'
    BY <1>1 DEF vars, RunTypes, DriverInv, Together, DiskHolds, Knowledge, SavedExactly
  <2>2. SaveGoesOn'
    BY <1>1 DEF vars, SaveGoesOn, NodesSaved, HalfSaved, Done, Before
  <2> QED
    BY <2>1, <2>2
<1>2. CASE Next
  <2>1. DriverInv'
    BY <1>2, DriverInductive
  <2> SUFFICES RunTypes' /\ Together' /\ DiskHolds' /\ SaveGoesOn' /\ SavedExactly' /\ Knowledge'
    BY <2>1
  <2>2. CASE DriverRun \/ ManualRun
    BY <2>2, LoadStep DEF DriverRun, ManualRun
  <2>3. CASE Record
    BY <2>3, RecordStep
  <2>4. CASE Touch
    BY <2>4, TouchStep
  <2>5. CASE Hang
    BY <2>5, HangStep
  <2>6. CASE Finalize \/ Destructor
    BY <2>6, OpenStep DEF Finalize, Destructor
  <2>7. CASE WriteHeader
    BY <2>7, WriteHeaderStep, WrittenStep DEF WriteHeader
  <2>8. CASE WriteNode
    BY <2>8, WriteNodeStep, WrittenStep DEF WriteNode
  <2>9. CASE WriteEdges
    BY <2>9, WriteEdgesStep, WrittenStep DEF WriteEdges
  <2>10. CASE Close
    BY <2>10, CloseStep
  <2>11. CASE Exit
    <3>1. PICK ret \in {0, 1} : Gone(ret)
      BY <2>11 DEF Exit
    <3> QED
      BY <2>11, <3>1, GoneStep DEF Exit
  <2>12. CASE Kill
    BY <2>12, GoneStep DEF Kill, Alive
  <2>13. CASE Start \/ Stop
    BY <2>13, NewDirectoryStep DEF Start, Stop, StartTest, StopTest
  <2>14. CASE LogCommand
    <3>1. RunTypes' /\ DiskHolds' /\ SavedExactly'
      BY <2>14 DEF LogCommand, runVars, RunTypes, DiskHolds, SavedExactly
    <3>2. Together' /\ Knowledge'
      BY <2>14 DEF LogCommand, Log, runVars, Together, Knowledge
    <3>3. SaveGoesOn'
      BY <2>14 DEF LogCommand, runVars, SaveGoesOn, NodesSaved, HalfSaved, Done, Before
    <3> QED
      BY <3>1, <3>2, <3>3
  <2> QED
    BY <1>2, <2>2, <2>3, <2>4, <2>5, <2>6, <2>7, <2>8, <2>9, <2>10, <2>11, <2>12, <2>13, <2>14
       DEF Next
<1> QED
  BY <1>1, <1>2

(* The invariant holds in every state of the system.                        *)
THEOREM CampaignInvariance == Spec => []CampaignInv
<1>1. Init => CampaignInv
  BY CampaignInitial
<1>2. CampaignInv /\ [Next]_vars => CampaignInv'
  BY CampaignInductive
<1> QED
  BY <1>1, <1>2, PTL DEF Spec

(* What load, addEdge and print do keeps the graph and the file well        *)
(* formed: no edge without its nodes, no more nodes than mutexes, and the   *)
(* driver's files hold numbers of runs.                                     *)
THEOREM CampaignTypeCorrect == Spec => []TypeOK
<1>1. CampaignInv => TypeOK
  <2> SUFFICES ASSUME CampaignInv PROVE TypeOK
    OBVIOUS
  <2>1. mem.nodes \subseteq Locks /\ file.n \in -1 .. Cardinality(Locks)
    BY NodesFinite DEF CampaignInv, RunTypes, FileType
  <2>2. \A e \in Pairs : mem.w[e] \in 0 .. MaxWeight /\ (mem.w[e] > 0 => {e[1], e[2]} \subseteq mem.nodes)
    BY DEF CampaignInv, RunTypes, GraphType, NoDangling
  <2> QED
    BY <2>1, <2>2 DEF CampaignInv, RunTypes, DriverInv, TypeOK
<1> QED
  BY <1>1, CampaignInvariance, PTL

(* LockGraph::save and load are inverse to each other: the text of a save   *)
(* that nothing disturbed is read back as the graph that was saved, for any *)
(* graph and whatever the reader's variables held.                          *)
THEOREM SavedExactlyCorrect == Spec => []SavedExactly
<1>1. CampaignInv => SavedExactly
  BY DEF CampaignInv
<1> QED
  BY <1>1, CampaignInvariance, PTL

(* The runs of one test.sh loop gather knowledge: each of them knows what   *)
(* the earlier ones recorded, for any number of runs.                       *)
THEOREM NothingForgottenCorrect == Spec => []NothingForgotten
<1>1. CampaignInv => NothingForgotten
  BY DEF CampaignInv, Knowledge, NothingForgotten
<1> QED
  BY <1>1, CampaignInvariance, PTL

(* test.sh log says "program crashed!" only when the loop has ended with a  *)
(* run that failed.                                                         *)
THEOREM CrashVerdictCorrect == Spec => []CrashVerdictTrue
<1>1. CampaignInv => CrashVerdictTrue
  BY DEF CampaignInv, DriverInv, CrashVerdictTrue
<1> QED
  BY <1>1, CampaignInvariance, PTL
-----------------------------------------------------------------------------
(* The file and the graph of the run implement the store of lock orders.    *)

LEMMA OrdersArePairs == \A gr : Orders(gr) \subseteq {e \in Pairs : e[1] # e[2]}
BY DEF Orders

(* Every step is a step of the store or leaves it as it is.                 *)
LEMMA StoreStep ==
    ASSUME CampaignInv, [Next]_vars
    PROVE  [Store!Next]_(Store!vars)
<1> DEFINE known == IF run = "none" THEN {} ELSE Orders(mem)
           state == CASE run = "none" -> "down" [] run = "saving" -> "saving" [] OTHER -> "up"
<1>run. run \in {"none", "up", "hung", "saving", "finalized", "exiting"} /\ quiet \in BOOLEAN
  BY DEF CampaignInv, RunTypes
<1>1. CASE UNCHANGED <<mem, run, disk, quiet>>
  BY <1>1 DEF Store!vars
<1>2. CASE Load
  <2>1. PICK junk \in Junk : mem' = Parse(file, junk)
    BY <1>2 DEF Load
  <2>2. Orders(mem') = disk
    BY <1>2, <2>1 DEF Load, CampaignInv, DiskHolds
  <2>3. Store!Start
    BY <1>2, <2>2 DEF Load, Store!Start
  <2> QED
    BY <2>3 DEF Store!Next
<1>3. CASE Record
  <2>1. \/ Orders(mem') = Orders(mem)
        \/ \E e \in Pairs : e[1] # e[2] /\ Orders(mem') = Orders(mem) \cup {e}
    BY <1>3, RecordStep
  <2>2. Store!Learn
    BY <1>run, <1>3, <2>1 DEF Record, Alive, Disturbs, Store!Learn
  <2> QED
    BY <2>2 DEF Store!Next
<1>4. CASE Touch
  <2>1. Orders(mem') = Orders(mem)
    BY <1>4, TouchStep
  <2>2. Store!Learn
    BY <1>run, <1>4, <2>1 DEF Touch, Alive, Disturbs, Store!Learn
  <2> QED
    BY <2>2 DEF Store!Next
<1>5. CASE Hang
  BY <1>5 DEF Hang, Store!vars
<1>6. CASE Finalize \/ Destructor
  <2>1. Store!Begin
    BY <1>6 DEF Finalize, Destructor, Open, Store!Begin
  <2> QED
    BY <2>1 DEF Store!Next
<1>7. CASE WriteHeader \/ WriteNode \/ WriteEdges
  BY <1>1, <1>7 DEF WriteHeader, WriteNode, WriteEdges, Written
<1>8. CASE Close
  <2>1. quiet => disk' = Orders(mem)
    BY <1>8, CloseStep
  <2>2. disk' \in SUBSET {e \in Pairs : e[1] # e[2]}
    BY <1>8, OrdersArePairs DEF Close, Stored
  <2>3. Store!Save
    BY <1>8, <2>1, <2>2 DEF Close, Store!Save
  <2> QED
    BY <2>3 DEF Store!Next
<1>9. ASSUME NEW ret \in {0, 1}, run # "none", ret = 0 => run = "exiting", Gone(ret)
      PROVE  Store!Next
  <2>1. CASE run = "saving"
    <3>1. quiet => disk' \subseteq Orders(mem)
      BY <1>9, <2>1, GoneStep
    <3>2. disk' \in SUBSET {e \in Pairs : e[1] # e[2]}
      BY <1>9, <2>1, OrdersArePairs DEF Gone, Stored
    <3>3. Store!Torn
      BY <1>9, <2>1, <3>1, <3>2 DEF Gone, Store!Torn
    <3> QED
      BY <3>3 DEF Store!Next
  <2>2. CASE run # "saving"
    <3>1. Store!Exit
      BY <1>run, <1>9, <2>2 DEF Gone, Store!Exit
    <3> QED
      BY <3>1 DEF Store!Next
  <2> QED
    BY <2>1, <2>2
<1>10. CASE Exit \/ Kill
  BY <1>9, <1>10 DEF Exit, Kill, Alive
<1>11. CASE NewDirectory
  <2>1. Store!Delete
    BY <1>11 DEF NewDirectory, Store!Delete
  <2> QED
    BY <2>1 DEF Store!Next
<1>12. CASE LogCommand
  BY <1>1, <1>12 DEF LogCommand, runVars
<1>13. CASE UNCHANGED vars
  BY <1>1, <1>13 DEF vars
<1> QED
  BY <1>2, <1>3, <1>4, <1>5, <1>6, <1>7, <1>8, <1>10, <1>11, <1>12, <1>13
     DEF Next, DriverRun, ManualRun, Start, Stop

(* LockGraph's file is a store of lock orders: a run starts from all that   *)
(* is stored, a save that nothing disturbs stores all in one step, and a    *)
(* run killed in the middle of it leaves no order that was not seen.        *)
THEOREM CampaignIsStore == Spec => IsStore
<1>1. Init => Store!Init
  BY DEF Init, Store!Init
<1>2. CampaignInv /\ [Next]_vars => [Store!Next]_(Store!vars)
  BY StoreStep
<1> QED
  BY <1>1, <1>2, CampaignInvariance, PTL DEF Spec, IsStore, Store!Spec
=============================================================================
