---------------------------- MODULE CellMapping ----------------------------
(***************************************************************************)
(* cell_present and cell_absent (_states/novav21.py), map_instances and    *)
(* update_cell (_states/novang.py), applied by several minions.  They look *)
(* for the cell with awk, in the lines that list_cells prints.             *)
(***************************************************************************)
EXTENDS NovaManage, FiniteSets, Naturals

CONSTANTS
  Id,        \* the uuids of cells
  Name,      \* the names of cells
  Url,       \* transport url and database connection, taken together
  Conf,      \* the Url of nova.conf
  Within,    \* Within[n]: the uuids, names and urls that contain the text n
  Rank,      \* the alphabetical order of the names
  Initial,   \* the cells there may be from the start
  NoCell,    \* no cell has the id
  NoId       \* what was printed is the id of no cell

Cell == [name : Name, url : Url, hosts : BOOLEAN, instances : BOOLEAN]

CellResource == [Id -> Cell \cup {NoCell}]

ASSUME CellAssumption ==
  /\ IsFiniteSet(Id)
  /\ NoCell \notin Cell
  /\ NoId \notin Id
  /\ Conf \in Url
  /\ Within \in [Name -> SUBSET (Id \cup Name \cup Url)]
  /\ \A n \in Name : n \in Within[n]
  /\ Rank \in [Name -> Nat]
  /\ Initial \subseteq CellResource

States == {"present", "absent", "map", "update"}

\* The states of this module that a pillar may ask for.
CellRequest == [state : States, name : Name, url : Url, force : BOOLEAN]

VARIABLES
  rows,      \* how many cells the run has found
  uuid       \* the id the run passes to nova-manage

cellLocal == <<rows, uuid, obeyed>>
cellVars == <<run, cellLocal>>

-----------------------------------------------------------------------------
Exists(i) == i \in Id /\ nova[i] # NoCell

\* The line of list_cells for cell i; only cell_present asks for the urls.
Line(i, state) ==
  {i, nova[i].name} \cup (IF state = "present" THEN {nova[i].url} ELSE {})

\* The cells whose lines awk '/name/' lets through.
Found(request) ==
  {i \in Id : nova[i] # NoCell /\ Line(i, request.state) \cap Within[request.name] # {}}

\* Several ids are printed one per line, and end the command after the first of
\* them; list_cells sorts the cells by name.  Mutated: the first line, before awk.
First_unfiltered(found) ==
  {i \in Id : Exists(i) /\ \A j \in Id : Exists(j) => Rank[nova[i].name] <= Rank[nova[j].name]}
First(found) ==
  {i \in found : \A j \in found : Rank[nova[i].name] <= Rank[nova[j].name]}

\* nova-manage refuses the url of another cell.
Taken(i, url) == \E j \in Id \ {i} : nova[j] # NoCell /\ nova[j].url = url

\* A uuid that neither Nova nor a run knows.  Bound: with as many cells as Id has,
\* no other one can be created.
NewId ==
  LET unknown == {i \in Id : nova[i] = NoCell /\ \A n \in Minion : uuid[n] # i}
  IN  IF unknown = {} THEN NoId ELSE CHOOSE i \in unknown : TRUE

-----------------------------------------------------------------------------
CellInit ==
  /\ RunInit(Initial) /\ pillar \subseteq CellRequest
  /\ rows = [m \in Minion |-> 0]
  /\ uuid = [m \in Minion |-> NoId]
  /\ obeyed = [m \in Minion |-> TRUE]

CellForget(m) ==
  /\ rows' = [rows EXCEPT ![m] = 0]
  /\ uuid' = [uuid EXCEPT ![m] = NoId]

CellFinish(m, result) == Return(m, result) /\ CellForget(m)

\* The branch that cell_present takes on the number of cells it found.  The
\* three variables that are compared and used hold the keys of cell_info, not
\* its values, so that a cell that is found always differs; a fourth key, of
\* what several lines have too much, cannot be unpacked.  Mutated: no line
\* is enough.
Branch_zero(n) == IF n <= 1 THEN "update_none" ELSE "unpack"
Branch(n) == IF n = 0 THEN "create" ELSE IF n = 1 THEN "update_none" ELSE "unpack"

\* What is reported of a cell that is not there.
NotFound(m) == IF want[m].state = "absent" THEN "non_existent" ELSE "update_failed"

Decide(m, found) ==
  LET state == want[m].state
      branch == Branch(Cardinality(found))
  IN  IF state = "present"
      THEN IF branch = "unpack" THEN CellFinish(m, Exception)
           ELSE GoTo(m, branch) /\ UNCHANGED <<rows, uuid>>
      ELSE IF found = {} THEN CellFinish(m, NotFound(m))
      ELSE /\ GoTo(m, state)
           /\ rows' = [rows EXCEPT ![m] = Cardinality(found)]
           /\ \E i \in First(found) : uuid' = [uuid EXCEPT ![m] = i]

\* list_cells; awk finds nothing in the output of a command that failed.
CellList(m) ==
  /\ pc[m] = "list"
  /\ \E answer \in Shell :
       /\ Heed(m, answer = "done")
       /\ IF answer = "raised" THEN CellFinish(m, Exception)
          ELSE Decide(m, IF answer = "done" THEN Found(want[m]) ELSE {})
  /\ ReadsFirst(m)

\* update_cell of cell_present, with a key for an id: there is no such cell.
UpdateNone(m) ==
  /\ pc[m] = "update_none"
  /\ \E answer \in Shell :
       CellFinish(m, IF answer = "raised" THEN "update_failed" ELSE "updated")
  /\ Heed(m, FALSE)
  /\ Reads(m)

\* create_cell; the id, or the message of an error, is what the next two
\* commands are given.
Create(m) ==
  /\ pc[m] = "create"
  /\ \E answer \in Shell :
       LET i == NewId
           new == [name |-> want[m].name, url |-> want[m].url,
                   hosts |-> FALSE, instances |-> FALSE]
           done == answer = "done" /\ i # NoId /\ ~Taken(i, want[m].url)
       IN  /\ Becomes(m, IF done THEN [nova EXCEPT ![i] = new] ELSE nova)
           /\ Heed(m, done)
           /\ IF answer = "raised" THEN CellFinish(m, "create_failed")
              ELSE /\ GoTo(m, "discover")
                   /\ uuid' = [uuid EXCEPT ![m] = IF done THEN i ELSE NoId]
                   /\ UNCHANGED rows

\* discover_hosts and map_instances after create_cell.  Mutated: the instances
\* are not mapped.
AfterDiscover_return(m) == CellFinish(m, "created")
AfterDiscover(m) == GoTo(m, "map_new") /\ UNCHANGED <<rows, uuid>>

Discover(m) ==
  /\ pc[m] = "discover"
  /\ \E answer \in Shell :
       LET done == answer = "done" /\ Exists(uuid[m])
       IN  /\ Becomes(m, IF done THEN [nova EXCEPT ![uuid[m]].hosts = TRUE] ELSE nova)
           /\ Heed(m, done)
           /\ IF answer = "raised" THEN CellFinish(m, "create_failed") ELSE AfterDiscover(m)

MapsInstances(m, answer) ==
  LET done == answer = "done" /\ Exists(uuid[m])
  IN  /\ Becomes(m, IF done THEN [nova EXCEPT ![uuid[m]].instances = TRUE] ELSE nova)
      /\ Heed(m, done /\ rows[m] <= 1)

MapNew(m) ==
  /\ pc[m] = "map_new"
  /\ \E answer \in Shell :
       /\ MapsInstances(m, answer)
       /\ CellFinish(m, IF answer = "raised" THEN "create_failed" ELSE "created")

\* map_instances of novang.
MapInstances(m) ==
  /\ pc[m] = "map"
  /\ \E answer \in Shell :
       /\ MapsInstances(m, answer)
       /\ CellFinish(m, IF answer = "raised" THEN "update_failed" ELSE "updated")

\* update_cell of novang; without the rest of the command, which several ids cut
\* off, the cell gets what nova.conf says.
UpdateCell(m) ==
  /\ pc[m] = "update"
  /\ \E answer \in Shell :
       LET url == IF rows[m] = 1 THEN want[m].url ELSE Conf
           done == answer = "done" /\ Exists(uuid[m]) /\ ~Taken(uuid[m], url)
       IN  /\ Becomes(m, IF done THEN [nova EXCEPT ![uuid[m]].url = url] ELSE nova)
           /\ Heed(m, done /\ rows[m] = 1)
           /\ CellFinish(m, IF answer = "raised" THEN "update_failed" ELSE "updated")

\* delete_cell, which Nova refuses if instances are mapped to the cell, and for
\* its hosts wants --force, which several ids cut off too.
MayDelete(m) ==
  /\ Exists(uuid[m])
  /\ ~nova[uuid[m]].instances
  /\ nova[uuid[m]].hosts => want[m].force /\ rows[m] = 1

Delete(m) ==
  /\ pc[m] = "absent"
  /\ \E answer \in Shell :
       LET done == answer = "done" /\ MayDelete(m)
       IN  /\ Becomes(m, IF done THEN [nova EXCEPT ![uuid[m]] = NoCell] ELSE nova)
           /\ Heed(m, done /\ rows[m] = 1)
           /\ CellFinish(m, IF answer = "raised" THEN "delete_failed" ELSE "deleted")

CellCall(m) ==
  \/ CellList(m) \/ UpdateNone(m) \/ Create(m) \/ Discover(m) \/ MapNew(m)
  \/ MapInstances(m) \/ UpdateCell(m) \/ Delete(m)

CellApplyOne(m, state) ==
  /\ \E request \in pillar : request.state = state /\ Begin(m, request)
  /\ obeyed' = [obeyed EXCEPT ![m] = TRUE]
  /\ UNCHANGED <<rows, uuid>>

CellApply(m) == \E state \in States : CellApplyOne(m, state)

CellAbort(m) == Kill(m) /\ CellForget(m) /\ obeyed' = [obeyed EXCEPT ![m] = TRUE]

CellStabilize == Settle /\ UNCHANGED cellLocal

CellNext ==
  \/ \E m \in Minion : CellApply(m) \/ CellCall(m) \/ CellAbort(m)
  \/ CellStabilize

CellSpec == CellInit /\ [][CellNext]_cellVars

\* A run that is not killed goes on, the disturbances end, and each of the
\* states is applied again and again by some minion.
CellFairness ==
  /\ \A m \in Minion : WF_cellVars(CellCall(m))
  /\ \A state \in States : SF_cellVars(\E m \in Minion : CellApplyOne(m, state))
  /\ WF_cellVars(CellStabilize)

CellFairSpec == CellSpec /\ CellFairness

-----------------------------------------------------------------------------
CellTypeOK ==
  /\ RunTypeOK(CellResource, {"list", "update_none", "create", "discover", "map_new"} \cup States)
  /\ pillar \subseteq CellRequest
  /\ rows \in [Minion -> 0..Cardinality(Id)]
  /\ uuid \in [Minion -> Id \cup {NoId}]
  /\ obeyed \in [Minion -> BOOLEAN]

\* The cells of that name.
Named(name) == {nova[i] : i \in {j \in Id : Exists(j) /\ nova[j].name = name}}

\* What a run of each of the states promises of the cell of its name if it reports
\* success.
Promised(m) ==
  LET cells == Named(want[m].name)
  IN  CASE report[m] = "created" ->
             \E c \in cells : c.url = want[m].url /\ c.hosts /\ c.instances
        [] report[m] \in {"non_existent", "deleted"} -> cells = {}
        [] want[m].state = "map" -> \E c \in cells : c.instances
        [] OTHER -> \E c \in cells : c.url = want[m].url

\* The name that run m asks for is in the line of no cell of another name.  Where it is,
\* awk finds that cell too: map_instances, update_cell and cell_absent change or delete
\* it in place of the one that has the name, and report success all the same.
Apart(m) == \A i \in Found(want[m]) : nova[i].name = want[m].name

\* A run that reports success has created, mapped, changed or deleted the cell of its
\* name as it was asked to, and that holds as long as nobody else changes a cell:
\* provided that the name is in the line of no other cell (Apart), and that each of
\* its nova-manage commands did what it was asked to.  These fail, or are cut short by
\* the ids of several cells, behind the back of the state functions.
CellReportIsTrue ==
  \A m \in Minion :
    report[m] \in SuccessReport /\ obeyed[m] /\ clean[m] /\ Apart(m) => Promised(m)

\* A run changes and deletes only cells of the name it asks for, also when commands
\* fail: provided that the name is in the line of no other cell, and that nobody else
\* has changed a cell since it listed them.
OwnCellsOnly ==
  [][\A m \in Minion : pc'[m] # pc[m] /\ clean[m] /\ Apart(m) =>
       \A i \in Id : Exists(i) /\ nova'[i] # nova[i] => nova[i].name = want[m].name]_cellVars

-----------------------------------------------------------------------------
\* One cell, that is created and mapped, and that no other one is taken for or has
\* the url of.
Alone ==
  /\ \A q \in pillar : q.name = Goal.name /\ q.url = Goal.url
  /\ {q.state : q \in pillar} = {"present", "map"}
  /\ \A q \in pillar : Found(q) = {}
  /\ \A i \in Id : Exists(i) => nova[i].name # Goal.name /\ nova[i].url # Goal.url

Mapped == \E c \in Named(Goal.name) : c.url = Goal.url /\ c.instances

\* "For newly created cells this state also runs discover_hosts and map_instances"
\* (novav21.py:290): if that breaks off, cell_present never does it again, since it
\* finds the cell; it takes map_instances of novang to have the instances mapped
\* in the end.
MappedInTheEnd == Alone => <>[]Mapped

\* One cell that is there, with a url that it should not have.
Outdated ==
  /\ {[q EXCEPT !.state = "present"] : q \in pillar} = {Goal}
  /\ \E i \in Id :
       /\ \A q \in pillar : Found(q) = {i}
       /\ nova[i].name = Goal.name /\ ~Taken(i, Goal.url)

\* "Ensure nova cell is present" (novav21.py:288): the cell gets the url that it is
\* asked to have in the end.
UpdatedInTheEnd == Outdated => <>[](\E c \in Named(Goal.name) : c.url = Goal.url)

=============================================================================
