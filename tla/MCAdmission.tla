----------------------------- MODULE MCAdmission -----------------------------
EXTENDS Admission

CONSTANTS c1, c2, c3, r1, r2

\* Two accounts of one person: the tokens of both carry the same address.
MCIds == {"u", "v"}
MCEmails == {"mail"}
MCEmailOf == [i \in MCIds |-> "mail"]
\* Nobody has a row, or u has paid, or v has taken the address.
MCInitial == {[i \in MCIds |-> "absent"],
              [i \in MCIds |-> IF i = "u" THEN "paid" ELSE "absent"],
              [i \in MCIds |-> IF i = "v" THEN "free" ELSE "absent"]}
\* Two requests beside a cleaner, or three cleaners.
MCDeployments == {{r1, r2, c1}, {c1, c2, c3}}
=============================================================================
