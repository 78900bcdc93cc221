----------------------------- MODULE Dashboards -----------------------------
(***************************************************************************)
(* What the pages of one learner say about the same rows: Home             *)
(* (lib/services/home.ts), the list of spaces and one space                 *)
(* (lib/services/spaces.ts), one project and the advice on what to do next  *)
(* (lib/services/projects.ts, lib/learning/next-step.ts and next-action.ts),*)
(* and the administrator's list and journey (lib/services/admin.ts).  Rows  *)
(* change by single steps; a page is what its queries return between two of *)
(* them.                                                                    *)
(***************************************************************************)
EXTENDS Integers, Sequences, SequencesExt, FiniteSets, FiniteSetsExt, Functions, TLC

CONSTANTS
    BoardProjects,    \* projects
    BoardSpaces,      \* spaces of the learner
    HomeOf,           \* the space of each project
    Masteries,        \* of a concept, in percent
    Importances,      \* of a concept
    ConceptPool,      \* WEAKEST_CONCEPT_POOL
    RecentLimit,      \* RECENT_PROJECT_LIMIT
    AttentionLimit,   \* concepts Home lists
    JourneyPool,      \* concepts an administrator's journey lists
    MaxBoardRows      \* bound on the rows of all projects

ASSUME BoardAssumption ==
    /\ HomeOf \in [BoardProjects -> BoardSpaces]
    /\ Masteries \subseteq 0..100
    /\ {ConceptPool, RecentLimit, AttentionLimit, JourneyPool} \subseteq Nat \ {0}
    /\ MaxBoardRows \in Nat

VARIABLES
    edited,      \* the projects there are, latest updatedAt first
    visited,     \* those with activity events, latest event first
    concepts,    \* Concept rows of each project: [importance, mastery]
    materials,   \* number of Material rows of each project, by status
    completed,   \* COMPLETED quizzes of each project
    advised      \* the projects with an OPEN recommendation

boardVars == <<edited, visited, concepts, materials, completed, advised>>

-----------------------------------------------------------------------------
Statuses == {"READY", "FAILED", "PROCESSING"}
Nothing == [status \in Statuses |-> 0]
Live == ToSet(edited)
MaterialsOf(p) == SumFunction(materials[p])
BoardRows ==
    SumFunction([p \in BoardProjects |->
        Len(concepts[p]) + MaterialsOf(p) + completed[p] + (IF p \in advised THEN 1 ELSE 0)])
Room == BoardRows < MaxBoardRows

ToFront(projects, p) == <<p>> \o Remove(projects, p)

BoardInit ==
    /\ edited = <<>> /\ visited = <<>>
    /\ concepts = [p \in BoardProjects |-> <<>>]
    /\ materials = [p \in BoardProjects |-> Nothing]
    /\ completed = [p \in BoardProjects |-> 0]
    /\ advised = {}

Visit(p) == visited' = ToFront(visited, p)

\* createProject and updateProject.
EditProject(p) ==
    /\ edited' = ToFront(edited, p)
    /\ Visit(p)
    /\ UNCHANGED <<concepts, materials, completed, advised>>

\* Its rows go with it, and its events keep no project.
RemoveProject(p) ==
    /\ p \in Live
    /\ edited' = Remove(edited, p) /\ visited' = Remove(visited, p)
    /\ concepts' = [concepts EXCEPT ![p] = <<>>]
    /\ materials' = [materials EXCEPT ![p] = Nothing]
    /\ completed' = [completed EXCEPT ![p] = 0]
    /\ advised' = advised \ {p}

AddConcept(p) ==
    /\ p \in Live /\ Room
    /\ \E importance \in Importances :
          concepts' = [concepts EXCEPT ![p] = Append(@, [importance |-> importance, mastery |-> 0])]
    /\ UNCHANGED <<edited, visited, materials, completed, advised>>

\* An answer is graded: mastery moves, with an event.
MoveMastery(p) ==
    /\ p \in Live
    /\ \E n \in DOMAIN concepts[p], mastery \in Masteries :
          concepts' = [concepts EXCEPT ![p][n].mastery = mastery]
    /\ Visit(p)
    /\ UNCHANGED <<edited, materials, completed, advised>>

UploadMaterial(p) ==
    /\ p \in Live /\ Room
    /\ materials' = [materials EXCEPT ![p]["PROCESSING"] = @ + 1]
    /\ Visit(p)
    /\ UNCHANGED <<edited, concepts, completed, advised>>

\* Processing ends, fails or starts again.
ChangeStatus(p) ==
    /\ p \in Live
    /\ \E from, to \in Statuses :
          /\ from # to /\ "PROCESSING" \in {from, to} /\ materials[p][from] > 0
          /\ materials' = [materials EXCEPT ![p][from] = @ - 1, ![p][to] = @ + 1]
    /\ Visit(p)
    /\ UNCHANGED <<edited, concepts, completed, advised>>

FinishQuiz(p) ==
    /\ p \in Live /\ Room
    /\ completed' = [completed EXCEPT ![p] = @ + 1]
    /\ Visit(p)
    /\ UNCHANGED <<edited, concepts, materials, advised>>

\* Recommendations are generated, or all of them closed.
Advise(p) ==
    /\ p \in Live
    /\ \/ p \notin advised /\ Room /\ advised' = advised \cup {p}
       \/ p \in advised /\ advised' = advised \ {p}
    /\ Visit(p)
    /\ UNCHANGED <<edited, concepts, materials, completed>>

BoardNext ==
    \E p \in BoardProjects :
        \/ EditProject(p) \/ RemoveProject(p)
        \/ AddConcept(p) \/ MoveMastery(p)
        \/ UploadMaterial(p) \/ ChangeStatus(p)
        \/ FinishQuiz(p) \/ Advise(p)

-----------------------------------------------------------------------------
(* Averages, exact for a few numbers *)

Fine == 12   \* averages are in 12ths of a percent
MeanOf(numbers) ==
    IF numbers = <<>> THEN 0 ELSE FoldLeft(LAMBDA sum, n : sum + n, 0, numbers) \div Len(numbers)
MasteryIn(rows) == [n \in DOMAIN rows |-> Fine * rows[n].mastery]

\* summarizeProjectMastery: no entry for a project without concepts.
Summarized(p) == MeanOf(MasteryIn(concepts[p]))
Assessed(projects) == SelectSeq(projects, LAMBDA p : concepts[p] # <<>>)

-----------------------------------------------------------------------------
(* One project *)

Weaker(c, d) == c.mastery < d.mastery
MatterMore(c, d) == c.importance > d.importance \/ (c.importance = d.importance /\ Weaker(c, d))

\* Sorted copies of the rows of one table (rows that compare equal look the same).
Ordered(rows, before(_, _)) ==
    LET places == SetToSortSeq(DOMAIN rows,
                     LAMBDA m, n : before(rows[m], rows[n]) \/ (~before(rows[n], rows[m]) /\ m < n))
    IN  [n \in DOMAIN places |-> rows[places[n]]]
Take(rows, n) == SubSeq(rows, 1, Min({n, Len(rows)}))

\* The concepts a project's page works with: the most important ones.
Pool(p) == Take(Ordered(concepts[p], MatterMore), ConceptPool)
PoolMean(p) == MeanOf(MasteryIn(Pool(p)))
Weakest(p) == Ordered(Pool(p), Weaker)[1]
ReviewBelow == 60

\* buildNextAction: an open recommendation, else the first rule of computeNextStep
\* that applies.
Rules(p) ==
    <<[applies |-> p \in advised,                advice |-> "recommendation"],
      [applies |-> materials[p]["FAILED"] > 0,    advice |-> "reprocess"],
      [applies |-> MaterialsOf(p) = 0,            advice |-> "add material"],
      [applies |-> materials[p]["READY"] = 0,     advice |-> "processing"],
      [applies |-> concepts[p] = <<>>,            advice |-> "explore"],
      [applies |-> completed[p] = 0,              advice |-> "quiz"],
      [applies |-> concepts[p] # <<>> /\ Weakest(p).mastery < ReviewBelow, advice |-> "review"],
      [applies |-> TRUE,                          advice |-> "keep going"]>>
NextAction(p) == Rules(p)[SelectInSeq(Rules(p), LAMBDA rule : rule.applies)].advice

-----------------------------------------------------------------------------
(* Spaces *)

ProjectsIn(s) == SelectSeq(edited, LAMBDA p : HomeOf[p] = s)
SumOver(projects, number(_)) == FoldLeft(LAMBDA sum, p : sum + number(p), 0, projects)
ConceptsOf(p) == Len(concepts[p])

\* Mutant: a project without concepts counts as a mastery of 0.
SpaceMeanOfAll(s) == MeanOf([n \in DOMAIN ProjectsIn(s) |-> Summarized(ProjectsIn(s)[n])])

\* listSpaces
SpaceMean(s) ==
    LET own == Assessed(ProjectsIn(s)) IN MeanOf([n \in DOMAIN own |-> Summarized(own[n])])
SpaceSummary(s) ==
    [projects |-> Len(ProjectsIn(s)), materials |-> SumOver(ProjectsIn(s), MaterialsOf),
     concepts |-> SumOver(ProjectsIn(s), ConceptsOf), average |-> SpaceMean(s)]

\* getSpaceDashboard: its materials come from one grouped query over the space.
Tile(p) ==
    [project |-> p, average |-> Summarized(p), materials |-> MaterialsOf(p), failed |-> materials[p]["FAILED"]]
SpaceDashboard(s) ==
    LET own == ProjectsIn(s)
        tiles == [n \in DOMAIN own |-> Tile(own[n])]
        entries == SelectSeq(tiles, LAMBDA tile : concepts[tile.project] # <<>>)
    IN
    [tiles |-> tiles,
     totals |-> [projects |-> Len(own),
                 materials |-> SumOver(own, LAMBDA p : SumFunction(materials[p])),
                 concepts |-> SumOver(own, ConceptsOf),
                 average |-> MeanOf([n \in DOMAIN entries |-> entries[n].average])],
     ready |-> SumOver(own, LAMBDA p : materials[p]["READY"]),
     needsAttention |-> Len(SelectSeq(tiles, LAMBDA tile : tile.failed > 0 \/ tile.average < 50 * Fine))]

-----------------------------------------------------------------------------
(* Home *)

AllConcepts ==
    FlattenSeq([n \in DOMAIN edited |->
        [k \in DOMAIN concepts[edited[n]] |-> concepts[edited[n]][k] @@ ("project" :> edited[n])]])
AttentionBelow == 60
RecentProjects == Take(edited, RecentLimit)
ContinueWith ==
    IF visited # <<>> /\ Contains(RecentProjects, visited[1]) THEN visited[1] ELSE RecentProjects[1]

Home ==
    [projects |-> Len(RecentProjects), concepts |-> Len(AllConcepts),
     ready |-> SumOver(edited, LAMBDA p : materials[p]["READY"]),
     average |-> MeanOf(MasteryIn(AllConcepts)),
     attention |-> Take(Ordered(SelectSeq(AllConcepts, LAMBDA c : c.mastery < AttentionBelow), Weaker),
                        AttentionLimit)]

-----------------------------------------------------------------------------
(* The administrator's views *)

\* listUsers
UserTotals ==
    FoldLeft(LAMBDA sum, p : [projects |-> sum.projects + 1, materials |-> sum.materials + MaterialsOf(p),
                              concepts |-> sum.concepts + ConceptsOf(p)],
             [projects |-> 0, materials |-> 0, concepts |-> 0], edited)

\* getUserJourney: the average of the weakest concepts.
JourneyMean == MeanOf(MasteryIn(Take(Ordered(AllConcepts, Weaker), JourneyPool)))

-----------------------------------------------------------------------------
(* Properties *)

\* Every page counts the same rows: the list of spaces, each space's page, the
\* administrator's list and Home, whose projects stop at its limit.
TotalsAgree ==
    /\ \A s \in BoardSpaces : SpaceSummary(s) = SpaceDashboard(s).totals
    /\ LET sum(field) == FoldSet(LAMBDA s, n : n + SpaceSummary(s)[field], 0, BoardSpaces) IN
       /\ \A field \in {"projects", "materials", "concepts"} : UserTotals[field] = sum(field)
       /\ Home.concepts = sum("concepts")
       /\ Home.projects = Min({RecentLimit, sum("projects")})
    /\ Home.ready = FoldSet(LAMBDA s, n : n + SpaceDashboard(s).ready, 0, BoardSpaces)

\* The mastery of a project is the same on its own page and in its space, unless it
\* has more concepts than its page looks at; an administrator's average of a user
\* is the one Home shows, or lower once there are more concepts than it looks at.
MeansAgree ==
    /\ \A s \in BoardSpaces : \A n \in DOMAIN SpaceDashboard(s).tiles :
          LET tile == SpaceDashboard(s).tiles[n] IN
          ConceptsOf(tile.project) <= ConceptPool => tile.average = PoolMean(tile.project)
    /\ JourneyMean <= Home.average
    /\ Len(AllConcepts) <= JourneyPool => JourneyMean = Home.average

\* The advice is right as far as it looks: "keep going" only if no concept of the
\* pool is weak, a review of the weakest of them, and a failed material before
\* anything but a recommendation; what Home lists as weak while a project's page
\* says "keep going" is beyond the pool.
AdviceRight ==
    /\ \A p \in Live :
          LET weak == {n \in DOMAIN concepts[p] : concepts[p][n].mastery < ReviewBelow} IN
          /\ NextAction(p) = "keep going" =>
                \A n \in weak : \A c \in ToSet(Pool(p)) :
                    ConceptsOf(p) > ConceptPool /\ ~MatterMore(concepts[p][n], c)
          /\ NextAction(p) = "review" => weak # {} /\ Home.attention # <<>>
          /\ materials[p]["FAILED"] > 0 => NextAction(p) \in {"reprocess", "recommendation"}
          /\ NextAction(p) = "reprocess" => SpaceDashboard(HomeOf[p]).needsAttention > 0
    /\ \A n \in DOMAIN Home.attention :
          LET c == Home.attention[n] IN
          NextAction(c.project) = "keep going" => ConceptsOf(c.project) > ConceptPool
    /\ Len(Home.attention) < AttentionLimit =>
          Len(Home.attention) = Quantify(DOMAIN AllConcepts, LAMBDA n : AllConcepts[n].mastery < AttentionBelow)

\* Home continues where the learner was last active, unless RecentLimit other
\* projects were edited later.
ContinuesRightly ==
    edited # <<>> =>
        /\ ContinueWith \in Live
        /\ ContinueWith # visited[1] =>
              \E others \in kSubset(RecentLimit, Live \ {visited[1]}) :
                 \A p \in others : SelectInSeq(edited, LAMBDA q : q = p) < SelectInSeq(edited, LAMBDA q : q = visited[1])

\* The pages of a learner agree about the same rows.
PagesAgree == TotalsAgree /\ MeansAgree /\ AdviceRight /\ ContinuesRightly
=============================================================================
