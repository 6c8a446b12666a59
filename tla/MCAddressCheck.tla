--------------------------- MODULE MCAddressCheck ---------------------------
EXTENDS AddressCheck

CONSTANTS j1, j2, w1, w2, w3, link

MCJobOf == [w \in Workers |-> IF w = w3 THEN j2 ELSE j1]

\* Addresses of a usual length; most characters of the last one's local part are digits.
Address(domain, digits, role) ==
    [domain |-> domain, length |-> 20, local |-> 6, digits |-> digits,
     file |-> FALSE, role |-> role]

MCForm == [own     |-> Address("own", 0, FALSE),  contact |-> Address("own", 0, TRUE),
           free    |-> Address("free", 0, FALSE), dead    |-> Address("dead", 0, FALSE),
           bad     |-> Address("bad", 0, FALSE),  number  |-> Address("own", 5, FALSE)]
MCAddresses == DOMAIN MCForm

MCPlatformOf == [l \in {link} |-> "website"]

Count(n, s) == [exact |-> n, short |-> s, unreadable |-> FALSE]
Unreadable  == [exact |-> 3000, short |-> FALSE, unreadable |-> TRUE]
Section(words) ==
    [broken |-> FALSE, mailto |-> words, contact |-> {}, business |-> {}]

NoData == [metadata |-> {}, micro |-> {}, about |-> {}, tabbed |-> Count(0, FALSE),
           header |-> Count(0, FALSE), social |-> {}, sections |-> <<>>]
NoHtml == [pattern |-> {}, meta |-> {}, shown |-> Count(0, FALSE)]
NoPage == [browse |-> NoData, page |-> NoData, html |-> NoHtml]

\* The second about section of the page cannot be read; the number is at a bound.
broken == [NoPage EXCEPT !.page =
    [NoData EXCEPT !.metadata = {"own", link, "number"}, !.tabbed = Count(2010, TRUE),
                   !.sections = <<Section({"contact"}),
                                  [Section({"dead"}) EXCEPT !.broken = TRUE],
                                  Section({"free"})>>]]
\* A description only in the about renderers, a number to be read only in the new header.
about == [NoPage EXCEPT !.browse =
    [NoData EXCEPT !.about = {"free", "dead", "bad"}, !.tabbed = Unreadable,
                   !.header = Count(4020, TRUE)]]
\* The data cannot be parsed, the patterns find the description.
html == [NoPage EXCEPT !.html =
    [pattern |-> {}, meta |-> {"own", "contact", "free"}, shown |-> Count(3000, FALSE)]]
\* Data with a description on the page, and the same in its HTML.
both == [broken EXCEPT !.page.sections = <<[Section({}) EXCEPT !.business = {"free"}]>>,
                       !.page.metadata = {link},
                       !.html = [html.html EXCEPT !.pattern = {link}]]
\* No description; too many subscribers; or nobody can tell.
silent == [NoPage EXCEPT !.page = [NoData EXCEPT !.sections = <<Section({"own"})>>]]
large  == [html EXCEPT !.html.shown = Count(4021, FALSE)]
odd    == [html EXCEPT !.html.shown = Unreadable]

MCPageOf == [broken |-> broken, about |-> about, html |-> html, both |-> both,
             silent |-> silent, large |-> large, odd |-> odd]
MCChannels == DOMAIN MCPageOf

\* The first job has two workers, the second one.
MCSupply(S, c) == [j \in {j1, j2} |-> IF j = j1 THEN S ELSE {c}]
MCSupplies == {MCSupply({"broken", "about"}, "both"),
               MCSupply({"html", "both"}, "broken"), MCSupply({"large", "odd", "silent"}, "html")}
=============================================================================
