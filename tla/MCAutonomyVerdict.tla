------------------------- MODULE MCAutonomyVerdict -------------------------
(* A small instance of AutonomyVerdict: two policy rules, one block rule   *)
(* and the parser's pseudo-rule; a root file and a nested file of the same *)
(* name; the same defect on two lines and once at info severity.           *)
EXTENDS AutonomyVerdict

MCRules == {"harness/image-unpinned", "harness/referenced-file-exists", "parser",
            "hooks/api-key-helper"}
MCEffect ==
    [r \in MCRules |-> CASE r \in {"harness/image-unpinned", "hooks/api-key-helper"} -> "policy"
                         [] r = "harness/referenced-file-exists" -> "block"
                         [] OTHER -> "unregistered"]
MCPaths == {"a.yaml", "sub/a.yaml"}
MCBaseName == [p \in MCPaths |-> "a.yaml"]
MCGlobs == {"a.yaml", "sub/*"}
MCMatch == [g \in MCGlobs |-> IF g = "a.yaml" THEN {"a.yaml"} ELSE {"sub/a.yaml"}]

Fact(r, p, s, l) == [rule |-> r, path |-> p, msg |-> "m", sev |-> s, line |-> l]
MCUniverse ==
    { Fact("harness/image-unpinned", "a.yaml", "warning", 1),
      Fact("harness/image-unpinned", "sub/a.yaml", "warning", 1),
      Fact("harness/referenced-file-exists", "a.yaml", "error", 1),
      Fact("harness/referenced-file-exists", "a.yaml", "error", 2),
      Fact("harness/referenced-file-exists", "a.yaml", "info", 3),
      Fact("parser", "sub/a.yaml", "error", 0) }

Item(sh, re, r, g) == [shaped |-> sh, reason |-> re, rule |-> r, file |-> g]
MCPolicyFiles ==
    { <<>>,
      << Item(TRUE, TRUE, "harness/image-unpinned", "sub/*"),
         Item(TRUE, TRUE, "harness/referenced-file-exists", NoGlob),
         Item(TRUE, TRUE, "hooks/api-key-helper", NoGlob) >>,
      << Item(FALSE, TRUE, "harness/image-unpinned", NoGlob),
         Item(TRUE, FALSE, "harness/image-unpinned", NoGlob),
         Item(TRUE, TRUE, "harness/image-unpinned", BadGlob),
         Item(TRUE, TRUE, "harness/image-unpinned", "a.yaml"),
         Item(TRUE, TRUE, "harness/image-unpinned", NoGlob) >> }
MCBaselines ==
    { {}, {<<"harness/referenced-file-exists", "here", "a.yaml", "m">>,
           <<"harness/image-unpinned", "elsewhere", "a.yaml", "m">>} }
=============================================================================
