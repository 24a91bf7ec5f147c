---------------------------- MODULE MCGuiServer ----------------------------
(* Scenes of at most four requests on two threads.                           *)
EXTENDS GuiServer, TLC

TokensDef == ("tok" :> "developer")
SessionsDef == ("cookie" :> "operator")
PoliciesDef ==
  <<[projects |-> {"p"}, environments |-> {}, actions |-> [send |-> {"developer"}], allowed |-> {}],
    [projects |-> {"p"}, environments |-> {"prod"}, actions |-> [approval |-> {"operator"}], allowed |-> {{"developer"}}]>>
EnvDef == [role |-> "operator", simple |-> FALSE, project |-> "p", environment |-> ""]
TargetsDef == [hook |-> "webhook", signed |-> "webhook-signed", file |-> "file", stdout |-> "stdout", other |-> "unsupported"]

Snap(x) == [text |-> x, left |-> "r1", right |-> "r2"]
By(x) == [by |-> "client", of |-> x]
Body(x, md) == [form |-> "record", schema |-> Version, snap |-> Snap(x), cmp |-> By(x), markdown |-> md,
                integrity |-> {}, persisted |-> 0, name |-> "n", pinned |-> FALSE, archived |-> TRUE,
                archivedAt |-> 0, tags |-> {}]
Kept(x, at, pinned) == [Body(x, By("m")) EXCEPT !.integrity = {Content(Body(x, By("m")))},
                                                !.persisted = at, !.pinned = pinned, !.archived = FALSE]
F(at, k) == [dir |-> Dir, at |-> at, tail |-> k]

\* The fields of all requests.
Request(id, kind) ==
  [id |-> id, kind |-> kind, json |-> TRUE, token |-> "", session |-> "", role |-> "", project |-> "", environment |-> ""]
Edit(id, kind, ids, gives, name, archived) ==
  Request(id, kind) @@ [ids |-> ids, gives |-> gives, name |-> name, pinned |-> TRUE, archived |-> archived,
                        tags |-> {"x"}, deletes |-> FALSE]
Delete(id, kind, ids) ==
  Request(id, kind) @@ [ids |-> ids, gives |-> {}, name |-> "", pinned |-> FALSE, archived |-> FALSE, tags |-> {}, deletes |-> TRUE]
Raw(form, n) == {[form |-> form, n |-> n]}
Retain(id, keep, age, with, dry) ==
  Request(id, "retention") @@ [keep |-> keep, maxAge |-> age, withArchived |-> with, dryRun |-> dry]
New(id, kind, body, bare) ==
  Request(id, kind) @@ [body |-> body, name |-> "", pinned |-> FALSE, archived |-> FALSE, tags |-> {}, bare |-> bare]
Act(id, action, hours, due) == Request(id, "action") @@ [run |-> "run", action |-> action, hours |-> hours, due |-> due]
Patch(id, gives, due) == Request(id, "workflow") @@ [run |-> "run", gives |-> gives, owner |-> "o", due |-> due]
\* Only developers may send.
Deliver(id, mode, targets, limit, dry) ==
  [Request(id, "send") EXCEPT !.token = "tok"] @@ [mode |-> mode, run |-> "run", targets |-> targets, limit |-> limit, dryRun |-> dry, secret |-> FALSE, of |-> ""]
Again(id, of, dry) ==
  Request(id, "resend") @@ [mode |-> "inbox", limit |-> 0, dryRun |-> dry, secret |-> TRUE, of |-> of]
Control(id, kind, out, execute) == Request(id, kind) @@ [out |-> out, execute |-> execute, valid |-> TRUE]

Stored(fs) == [f \in fs |-> Kept("x", f.at, f.tail = 2)] @@ [f \in {Markdown(g) : g \in fs} |-> [form |-> "text"]]
NoRuns == [d \in {} |-> Empty]
\* A scene starts with no death, fault or tick left; those below allow some.
Scene(fs, rs, ds) ==
  [files |-> Stored(fs), requests |-> rs, runs |-> ds, now |-> MaxTime, deaths |-> MaxDeaths, faults |-> MaxFaults,
   origin |-> [f \in fs |-> Content(Kept("x", f.at, FALSE))]]

Old == [Body("old", Nothing) EXCEPT !.schema = "export", !.cmp = Nothing, !.archived = FALSE]

WithDeath(s) == [s EXCEPT !.deaths = 0]
WithFault(s) == [s EXCEPT !.faults = MaxFaults - 1]
WithFaults(s) == [s EXCEPT !.faults = 0]
WithTick(s) == [s EXCEPT !.now = 1]

Two == {F(0, 1), F(0, 2)}
\* An edit, a retention and a save at once.
Crowd == WithTick(Scene(Two, {Edit("a", "metadata", <<F(0, 1)>>, {"pinned", "tags"}, "", FALSE),
                             Retain("b", Raw("number", 1), {}, FALSE, FALSE), New("c", "save", Body("y", Nothing), FALSE)}, NoRuns))
\* A bulk edit, and two retentions by age and number, one of them a dry run.
Bulk == WithTick(Scene(Two, {Edit("a", "bulk", <<F(0, 1), F(0, 2)>>, {"archived", "name"}, "new", TRUE),
                            Retain("b", Raw("other", -1), Raw("other", 0), FALSE, FALSE),
                            Retain("c", Raw("number", 1), {}, TRUE, TRUE)}, NoRuns))
\* A rename and two deletions, with a death, or a full disk, or an alteration.
Deletions == Scene(Two, {Edit("a", "rename", <<F(0, 1)>>, {"name"}, "new", FALSE), Delete("b", "delete", <<F(0, 1)>>),
                        Delete("c", "bulk", <<F(0, 1), F(0, 2)>>)}, NoRuns)
\* Retentions with 0 as a number: beside another limit, alone, beside what is no integer.
Zeros == WithFault(Scene(Two, {Retain("a", Raw("number", 0), Raw("other", 1), FALSE, FALSE),
                              Retain("b", {}, Raw("number", 0), FALSE, FALSE),
                              Retain("c", Raw("number", 0), Raw("junk", 0), FALSE, FALSE),
                              Retain("d", Raw("infinite", 0), Raw("junk", 0), FALSE, FALSE)}, NoRuns))
\* An old snapshot of the export form, one on disk and one imported.
Legacy == [WithFault(Scene({F(0, 1)}, {New("a", "import", Old, TRUE), Retain("b", Raw("number", 1), Raw("number", 1), TRUE, FALSE),
                                      Edit("c", "metadata", <<F(0, 2)>>, {"name"}, "z", FALSE)}, NoRuns))
             EXCEPT !.files = Set(@, F(0, 2), Old)]
\* Bodies that cannot be used, and a torn file among the good ones.
Unusable == [WithFault(Scene({F(0, 1)}, {New("a", "import", Body("z", By("m")), FALSE), New("b", "save", [Old EXCEPT !.form = "bad"], FALSE),
                                        New("c", "import", [form |-> "bad"], FALSE), New("d", "import", [form |-> "absent"], FALSE)}, NoRuns))
               EXCEPT !.files = Set(@, F(0, 2), Torn)]
\* Requests without what they need, an edit of a torn file, and a full disk.
Empties == [WithFault(Scene({F(0, 1)}, {Edit("a", "rename", <<F(0, 1)>>, {"name"}, "", FALSE),
                                       Edit("b", "metadata", <<F(0, 2)>>, {"tags"}, "", FALSE),
                                       Delete("c", "bulk", <<>>), New("d", "save", Body("y", By("m")), FALSE)}, NoRuns))
              EXCEPT !.files = Set(@, F(0, 2), Torn)]
NoNames == Scene({F(0, 1)}, {Edit("a", "metadata", <<F(0, 1)>>, {"name"}, "", FALSE), Retain("b", {}, {}, FALSE, FALSE),
                           [Request("c", "approval") @@ [run |-> "run", decision |-> "reject"] EXCEPT !.role = "evaluator"]}, NoRuns)

\* An escalation, an extension and a patch of one run's workflow.
Escalation == WithDeath(WithTick(Scene({}, {Act("a", "escalate", 0, 0), Act("b", "extend_due", 0, 0), Patch("c", {"due"}, 3)}, NoRuns)))
\* An extension by hours, its clearing, and hours that are no number.
Extension == WithFault(Scene({}, {Act("a", "extend_due", 2, 0), Act("b", "clear_escalation", 0, 0), Act("c", "escalate", -1, 0)}, NoRuns))
\* Runs that are gone or without a report, and an unknown action.
NoSuchRun == Scene({}, {[Act("a", "extend_due", 0, 5) EXCEPT !.run = "gone"], Act("b", "snooze", 0, 0), Act("c", "extend_due", 0, 5),
                       [Patch("d", {"owner"}, 0) EXCEPT !.run = "bare"]}, NoRuns)
\* A delivery to targets named twice, and two retries of it.
Retries == WithFaults(Scene({}, {Deliver("a", "inbox", <<"hook", "hook", "file">>, 1, FALSE), Again("b", "a", FALSE), Again("c", "a", FALSE)}, NoRuns))
\* Targets that cannot be delivered to, and dry runs.
DryRuns == WithTick(Scene({}, {Deliver("a", "events", <<"signed", "other", "hook">>, 0, FALSE), Deliver("b", "events", <<"hook">>, 0, TRUE),
                              Again("c", "a", TRUE)}, NoRuns))
\* Approvals by a session under a policy, and deliveries without a target or run.
Approvals == Scene({}, {Deliver("a", "inbox", <<>>, 0, FALSE), [Deliver("b", "run", <<"file">>, 0, FALSE) EXCEPT !.run = "gone"],
                       [Request("c", "approval") @@ [run |-> "run", decision |-> "approve"] EXCEPT !.session = "cookie", !.environment = "prod"],
                       Request("d", "approval") @@ [run |-> "run", decision |-> "later"], Again("e", "a", FALSE)}, NoRuns)

Fresh1 == [Empty EXCEPT !.exists = TRUE]
\* A start, a resume and a stop of one directory.
Controls == WithDeath(Scene({}, {Control("a", "start", "d", TRUE), Control("b", "resume", "d", TRUE), Control("c", "stop", "d", TRUE)}, ("d" :> Empty)))
\* Controls that are refused: a role, a policy, a payload, a body.
Refusals == WithFault(Scene({}, {[Control("a", "retry", "d", TRUE) EXCEPT !.token = "tok"], [Control("b", "start", "d", FALSE) EXCEPT !.role = "evaluator"],
                                [Control("c", "start", "d", TRUE) EXCEPT !.valid = FALSE], [Control("d", "resume", "d", FALSE) EXCEPT !.json = FALSE]},
                           ("d" :> Fresh1)))

ScenesDef == {Crowd, Bulk, WithDeath(Deletions), WithFault(Deletions), Zeros, Legacy, Unusable, Empties, NoNames,
              Escalation, Extension, NoSuchRun, Retries, WithDeath([Retries EXCEPT !.faults = 1]), DryRuns, Approvals, Controls, WithFault(Controls), Refusals}

QueriesDef ==
  {[archive |-> a, pinned |-> "all", baseline |-> "", candidate |-> "r2", tag |-> t, from |-> {}, to |-> d, query |-> "", sort |-> o] :
     a \in {"all", "active"}, t \in {"", "x"}, d \in {{}, {1}}, o \in {"newest", "oldest"}}
=============================================================================
