---------------------------- MODULE MCCliRunner ----------------------------
(***************************************************************************)
(* CliRunner on three machines: one that runs tests of one engine, one     *)
(* that runs several at once, and one that keeps certificates or results.  *)
(***************************************************************************)
EXTENDS CliRunner

Command(name, ks) == [name |-> name, kinds |-> ks]

Tests == {Command("test", {k}) : k \in Kinds} \cup
         {Command(n, {}) : n \in {"benchmark", "monitor", "compare", "unknown"}}

Combined == {Command("combined", ks) : ks \in {{}, {"cpu", "gpu"}, {"ram", "storage"}}}

Stores == {Command(n, {}) : n \in {"schedule", "certificate", "upload", "verify", "list",
                                   "submit", "show"}}

ThreeMenus == {Tests, Combined, Stores}
=============================================================================
