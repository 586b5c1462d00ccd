---------------------------- MODULE MCConfigLoader ----------------------------
(* ConfigLoader with two directories in reach of the walk and one above,   *)
(* and three revisions in a line, of which the central policy admits two.  *)
EXTENDS ConfigLoader

CONSTANTS r1, r2, r3

MCAncestor == {<<r1, r1>>, <<r1, r2>>, <<r1, r3>>, <<r2, r2>>, <<r2, r3>>, <<r3, r3>>}

Range12 == [kind |-> "range", repository |-> "interfaces", base |-> r1, head |-> r2]

NoSetting == [s \in {} |-> "fine"]

MCCentral ==
  [parses |-> TRUE, schema |-> 1, compatibility |-> Range12,
   set |-> [s \in {"pages.show"} |-> <<"sign-in", "consent">>]]

(* A project that lists factors, and one that only names its revision.     *)
Shadowing ==
  [parses |-> TRUE, schema |-> 1,
   compatibility |-> [kind |-> "exact", repository |-> "interfaces", commit |-> r2],
   set |-> [s \in {"two_factor.methods", "three_factor.enabled"} |->
              IF s = "two_factor.methods" THEN <<"passkey">> ELSE TRUE]]

Plain ==
  [parses |-> TRUE, schema |-> 1,
   compatibility |-> [Range12 EXCEPT !.base = r2, !.head = r3],
   set |-> [s \in {"pages.show"} |-> <<"challenge">>]]

(* Documents that are refused, each for a reason of its own.               *)
Refused ==
  {[Plain EXCEPT !.parses = FALSE],
   [Plain EXCEPT !.set = [s \in {"three_factor.methods"} |-> <<"totp", "totp">>]],
   [Plain EXCEPT !.compatibility.repository = "other"]}

MCDocuments == {Shadowing, Plain} \cup Refused

MCWritten == {[doc |-> Plain, big |-> FALSE], [doc |-> Plain, big |-> TRUE]}

None == [kind |-> "none", inode |-> 0]
File(i) == [kind |-> "file", inode |-> i]
Link(i) == [kind |-> "link", inode |-> i]
Folder  == [kind |-> "directory", inode |-> 0]

(* Two files, of which the second is outside or above.                     *)
Files(doc) == <<[doc |-> doc, big |-> FALSE], [doc |-> Plain, big |-> FALSE]>>

Tree(c1, l1, c2, l2, g1, g2, denied, doc) ==
  [entry |-> [p \in Dirs \X Names |->
                CASE p = <<1, "canonical">> -> c1 [] p = <<1, "legacy">> -> l1
                  [] p = <<2, "canonical">> -> c2 [] p = <<2, "legacy">> -> l2
                  [] OTHER -> None],
   git |-> [d \in Dirs |-> CASE d = 1 -> g1 [] d = 2 -> g2 [] OTHER -> "none"],
   content |-> Files(doc), denied |-> denied]

MCLayouts ==
  {Tree(File(1), None, None, File(2), "none", "directory", {}, doc) : doc \in MCDocuments}
    \cup {Tree(None, File(1), File(2), None, "directory", "none", {}, Shadowing),
          Tree(None, None, File(1), None, "none", "none", {}, Shadowing),
          Tree(None, None, File(1), None, "file", "directory", {<<1, ".git">>}, Shadowing),
          Tree(Link(1), None, File(2), None, "none", "directory", {}, Shadowing),
          Tree(Folder, File(1), None, None, "none", "none", {}, Shadowing),
          Tree(Folder, None, File(1), None, "none", "none", {}, Shadowing),
          Tree(File(1), Link(0), None, None, "directory", "none", {<<1, "legacy">>}, Shadowing)}
=============================================================================
