--------------------------- MODULE MCDefinitions ---------------------------
(***************************************************************************)
(* The requests, payloads and combinations of them for model checking      *)
(* Definitions: three jobs of one project, a second project, and one that  *)
(* does not exist yet.  Only requests of one scenario come together.       *)
(***************************************************************************)
EXTENDS Definitions, TLC

CONSTANTS p1, p2, p3, k1, k2, k3, k4, e1, e2, h1, c1, c2

MCJob(p, k, s) == [state |-> "live", project |-> p, code |-> k, active |-> TRUE,
                   singleRun |-> FALSE, schedules |-> s, headers |-> {h1}]

MCKey(p) == [prefix |-> IF p = p2 THEN "x" ELSE "y", secret |-> p]
MCInitialKeys == [p \in {p1, p2, p3} |-> MCKey(p)]

MCInitialJobs == <<MCJob(p1, k1, {e1}), MCJob(p1, k2, {e1}), MCJob(p2, k3, {e2})>>

MCDecl(k, s) == [code |-> k, valid |-> TRUE, active |-> Omitted, singleRun |-> Omitted,
                 schedules |-> s, headers |-> Omitted, links |-> <<>>]

MCTo(k) == <<[code |-> k, condition |-> "success"]>>

MCPayloads ==
  << [prune |-> TRUE,      \* keeps k1, adds k4 and a link between them
      jobs |-> <<[MCDecl(k1, {e1}) EXCEPT !.links = MCTo(k4)], MCDecl(k4, {e2})>>],
     [prune |-> TRUE,      \* k2 is declared and does not validate
      jobs |-> <<[MCDecl(k1, {e2}) EXCEPT !.headers = {}, !.links = MCTo(k2)],
                 [MCDecl(k2, {e1}) EXCEPT !.valid = FALSE, !.links = MCTo(k1)]>>],
     [prune |-> FALSE,     \* the schedules of k1 are left out, its flags stated
      jobs |-> <<[MCDecl(k1, Omitted) EXCEPT !.active = TRUE, !.singleRun = FALSE]>>],
     [prune |-> TRUE, jobs |-> <<>>] >>

MCReq(kind, scope, j) == [kind |-> kind, scope |-> scope, job |-> j, valid |-> TRUE]

MCInput(p, k, b) == [project |-> p, code |-> k, active |-> b, singleRun |-> b,
                     schedules |-> {e1}, headers |-> {}]

MCLinkReq(i, j) ==
  [kind |-> "addLink", scope |-> {p1, p2}, job |-> i, to |-> j,
   condition |-> "success", valid |-> TRUE]

MCSync(p, n) == [kind |-> "sync", key |-> MCKey(p), payload |-> n]

MCProject(kind, scope, p) ==
  [kind |-> kind, scope |-> scope, project |-> p, valid |-> TRUE, active |-> FALSE,
   force |-> FALSE]

MCScript ==
  << MCLinkReq(1, 2), MCLinkReq(2, 3), MCLinkReq(3, 1),                       \* 1-3
     MCSync(p1, 1), MCSync(p1, 1), MCSync(p1, 2), MCSync(p1, 3), MCSync(p1, 4), \* 4-8
     MCReq("setActive", {p1}, 1) @@ [active |-> FALSE],                       \* 9
     MCReq("delete", {p1}, 1),                                                \* 10
     MCReq("clone", {p1, p2}, 3) @@ [code |-> k4],                            \* 11
     MCReq("addSchedule", {p1}, 1) @@ [expr |-> e2],                          \* 12
     MCReq("removeSchedule", {p1}, 1) @@ [expr |-> e1],                       \* 13
     MCReq("removeLink", {p1, p2}, 1) @@ [to |-> 2, condition |-> "success"], \* 14
     MCReq("create", {p1}, 0) @@ [in |-> MCInput(p1, k4, TRUE)],              \* 15
     MCReq("update", {p1, p2}, 1) @@ [in |-> MCInput(p2, k1, TRUE)],          \* 16
     MCProject("newProject", {p1}, p3), MCProject("saveProject", {p1}, p1),   \* 17-18
     MCProject("rotateKey", {p1}, p1),                                        \* 19
     [MCProject("deleteProject", {p1}, p1) EXCEPT !.force = TRUE],            \* 20
     MCProject("deleteProject", {p2}, p2),                                    \* 21
     MCReq("setActive", {p2}, 1) @@ [active |-> TRUE],                        \* 22
     MCReq("update", {p2}, 1) @@ [in |-> MCInput(p2, k1, TRUE)],              \* 23
     MCReq("setActive", {}, 1) @@ [active |-> FALSE],                         \* 24
     [MCLinkReq(1, 3) EXCEPT !.scope = {p2}],                                 \* 25
     MCReq("setActive", {p1}, 1) @@ [active |-> TRUE],                        \* 26
     [MCProject("saveProject", {p1}, p1) EXCEPT !.valid = FALSE],             \* 27
     [MCProject("newProject", {p1}, p3) EXCEPT !.valid = FALSE],              \* 28
     MCProject("rotateKey", {p2}, p2),                                        \* 29
     MCReq("create", {p2}, 0) @@ [in |-> MCInput(p2, k1, TRUE)],              \* 30
     MCReq("clone", {p1}, 3) @@ [code |-> k4],                                \* 31
     MCReq("removeSchedule", {p1}, 2) @@ [expr |-> e1],                       \* 32
     MCReq("removeSchedule", {p1}, 1) @@ [expr |-> e2] >>                     \* 33

MCScenarios ==
  { {1, 2, 3}, {1, 14, 13}, {4, 5}, {4, 9}, {4, 10}, {4, 15}, {6, 9}, {6, 16},
    {6, 12}, {4, 20}, {15, 20}, {16, 21}, {10, 16}, {10, 9, 26}, {10, 22}, {11, 20},
    {12, 13}, {17, 18, 7}, {19, 7, 8}, {20, 19, 23}, {23, 24, 25}, {3, 4},
    {27, 28, 31}, {29, 7}, {16, 30}, {1, 32, 33} }
=============================================================================
