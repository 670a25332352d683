----------------------------- MODULE MCServices -----------------------------
(* The instance for TLC: two calls of the API, two or three goroutines at  *)
(* the snapshot managers, two jobs whose IDs may be the same or share      *)
(* their device, and one setting per group of parts.                       *)
EXTENDS ServicesSystem, TLC

CONSTANTS r1, r2

Setting(active, ops, kinds, calls, snaps, out, faults) ==
  [active |-> active, ops |-> ops, kinds |-> kinds, calls |-> calls, snaps |-> snaps,
   out |-> out, faults |-> faults, ids |-> <<>>, attach |-> 0]

MCManagers == {"olympus", "agent"}
MCCallers == {"c1", "c2"}
MCRequests == {r1, r2}
MCJobs == {"j1", "j2"}
MCIDs == {<<"aaaaaaaa", "1">>, <<"aaaaaaaa", "2">>, <<"bbbbbbbb", "1">>, <<"ccc">>}

NetworkSetting(id1, id2) ==
  [Setting({}, {"list"}, {}, 0, 0, 0, 1)
     EXCEPT !.ids = [j \in MCJobs |-> IF j = "j1" THEN id1 ELSE id2], !.attach = 3]

MCSettings ==
  { Setting({}, {"list"}, {}, 3, 2, 0, 0),
    Setting({}, {"list"}, {}, 2, 2, 0, 1),
    Setting({}, {"list"}, {}, 3, 1, 0, 1),
    Setting({r1}, {"snapshot"}, {}, 2, 1, 0, 0),
    Setting({r1, r2}, {"logs"}, {}, 0, 0, 1, 0),
    Setting({r1, r2}, {"exec"}, {}, 0, 0, 1, 0),
    Setting({r1}, {"logs", "exec"}, {}, 0, 0, 3, 1),
    Setting({r1}, {"shell", "list"}, {}, 0, 0, 2, 1),
    Setting({}, {"list"}, {"job"}, 0, 0, 0, 2),
    Setting({}, {"list"}, {"template"}, 0, 0, 0, 1),
    Setting({}, {"list"}, {"policy"}, 0, 0, 0, 1),
    NetworkSetting(<<"aaaaaaaa", "1">>, <<"aaaaaaaa", "1">>),
    NetworkSetting(<<"aaaaaaaa", "1">>, <<"aaaaaaaa", "2">>),
    NetworkSetting(<<"aaaaaaaa", "1">>, <<"bbbbbbbb", "1">>),
    NetworkSetting(<<"aaaaaaaa", "1">>, <<"ccc">>) }
=============================================================================
