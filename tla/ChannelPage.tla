----------------------------- MODULE ChannelPage -----------------------------
(***************************************************************************)
(* What the spider reads from a channel: _fetch_channel_desc takes the     *)
(* first answer with a description (engine/spider.py), the parsers find    *)
(* the description, the subscribers and the links in it                    *)
(* (engine/youtube_parser.py), and EmailValidator says which words of the  *)
(* description are addresses worth keeping (engine/email_validator.py).    *)
(*                                                                         *)
(* A text is the set of its words, an empty one is a missing one.  A word  *)
(* is an address, of which Form holds what the validation looks at, or a   *)
(* link.  Duplicates and the order of words are therefore left out, and so *)
(* are names.  A channel c is a record of what its three pages hold.       *)
(***************************************************************************)
EXTENDS Integers, FiniteSets

CONSTANTS
    Addresses,          \* what EMAIL_RE finds, in lower case
    Form,               \* Form[a]: its domain, lengths, digits and kind
    Links,              \* the other words
    Platforms,          \* the keys of social_links
    PlatformOf,         \* PlatformOf[l]: the platform link l leads to
    KnownTlds,          \* domains that end in one of VALID_TLDS
    BadDomains,         \* BAD_DOMAINS and DISPOSABLE_DOMAINS
    FreeProviders,
    MinSubs, MaxSubs    \* the bounds of the job, 0 for none

Words == Addresses \union Links

ASSUME PageAssumption ==
    /\ PlatformOf \in [Links -> Platforms] /\ IsFiniteSet(Platforms)
    /\ {MinSubs, MaxSubs} \subseteq Nat
    /\ \A a \in Addresses :
          /\ {Form[a].length, Form[a].local, Form[a].digits} \subseteq Nat
          /\ {Form[a].file, Form[a].role} \subseteq BOOLEAN

-----------------------------------------------------------------------------
(* youtube_parser.py *)

\* A number as YouTube shows it, like 2.01K: its exact value, and whether the product
\* of two floats that stands for it falls short of it and is truncated.  What float()
\* cannot read, the word for a unit in another language or "No", is 0.
ParseSubscribers(shown) ==
    IF shown.unreadable THEN 0 ELSE IF shown.short THEN shown.exact - 1 ELSE shown.exact

\* The metadata, the microformat, the first of the about renderers that has a text.
Description(data) ==
    IF data.metadata # {} THEN data.metadata
    ELSE IF data.micro # {} THEN data.micro ELSE data.about

\* The number of the old header, unless that is 0, or of the new one.
Subscribers(data) ==
    LET tabbed == ParseSubscribers(data.tabbed)
    IN  IF tabbed # 0 THEN tabbed ELSE ParseSubscribers(data.header)

\* One try block surrounds the loop: it ends at the first section that raises.  (A
\* section that raises at one of its links counts as two, and the second is broken.)
SectionsRead(data) ==
    {i \in DOMAIN data.sections : \A k \in 1..i : ~data.sections[k].broken}

\* What the about sections add: mailto links, contact links, the business address.
Appended(data) ==
    UNION {data.sections[i].mailto \union data.sections[i].contact
             \union data.sections[i].business : i \in SectionsRead(data)}

SocialIn(text) == {PlatformOf[l] : l \in text \intersect Links}

None == [text |-> {}, subs |-> 0, social |-> {}]

\* _extract_from_ytInitialData: without a description there is no result, whatever the
\* about sections hold.
FromInitialData(data) ==
    LET text == Description(data) \union Appended(data)
    IN  IF Description(data) = {} THEN None
        ELSE [text |-> text, subs |-> Subscribers(data),
              social |-> data.social \union SocialIn(text)]

\* _extract_from_html_fallback
FromHtml(html) ==
    LET text == IF html.pattern # {} THEN html.pattern ELSE html.meta
    IN  IF text = {} THEN None
        ELSE [text |-> text, subs |-> ParseSubscribers(html.shown),
              social |-> SocialIn(text)]

\* _fetch_channel_desc: the browse API, the data of the page, the page.
ReadChannel(c) ==
    LET browse == FromInitialData(c.browse)
        page   == FromInitialData(c.page)
    IN  IF browse.text # {} THEN browse
        ELSE IF page.text # {} THEN page ELSE FromHtml(c.html)

\* Mutant of PassesSubFilter: a bound excludes itself.
PassesStrictly(subs) ==
    /\ MinSubs > 0 => subs > MinSubs
    /\ MaxSubs > 0 => subs < MaxSubs

\* _passes_sub_filter
PassesSubFilter(subs) ==
    /\ MinSubs > 0 => subs >= MinSubs
    /\ MaxSubs > 0 => subs <= MaxSubs

-----------------------------------------------------------------------------
(* email_validator.py *)

DomainOf(a) == Form[a].domain

IsValid(a) ==
    /\ Form[a].length \in 6..100
    /\ DomainOf(a) \notin BadDomains
    /\ DomainOf(a) \in KnownTlds
    /\ ~Form[a].file
    /\ Form[a].local >= 2
    /\ ~(Form[a].local > 4 /\ 10 * Form[a].digits > 8 * Form[a].local)

\* Mutant of Extract: every word is taken for an address.
ExtractWords(text) == text

\* extract_fresh
Extract(text) == {a \in text \intersect Addresses : IsValid(a)}

\* The points of compute_confidence.
PatternPoints(a) ==
    IF DomainOf(a) \in FreeProviders THEN 15 ELSE IF Form[a].role THEN 10 ELSE 25

AuthorityPoints(subs) ==
    IF subs >= 1000000 THEN 25
    ELSE IF subs >= 100000 THEN 20
    ELSE IF subs >= 10000 THEN 15
    ELSE IF subs >= 1000 THEN 10 ELSE 5

SocialPoints(n) == IF 4 * n < 20 THEN 4 * n ELSE 20

Confidence(a, subs, links, mxValid) ==
    LET score == (IF mxValid THEN 30 ELSE 0) + PatternPoints(a)
                     + AuthorityPoints(subs) + SocialPoints(links)
    IN  IF score < 100 THEN score ELSE 100

-----------------------------------------------------------------------------
(* What a reader of the three pages would expect to be found. *)

ShowsText(data) == data.metadata \union data.micro \union data.about # {}

\* The page that is read: the first that shows a description.
DataRead(c) == IF ShowsText(c.browse) THEN c.browse ELSE c.page

\* Its addresses are those of the description, and of the about sections that no
\* broken one precedes.  The HTML is read only if neither page shows a description.
Readable(c, a) ==
    LET data == DataRead(c) IN
    /\ IsValid(a)
    /\ \/ a \in data.metadata
       \/ data.metadata = {} /\ a \in data.micro
       \/ data.metadata \union data.micro = {} /\ a \in data.about
       \/ /\ ShowsText(data)
          /\ \E i \in DOMAIN data.sections :
                /\ a \in data.sections[i].mailto \union data.sections[i].contact
                           \union data.sections[i].business
                /\ \A k \in 1..i : ~data.sections[k].broken
       \/ /\ ~ShowsText(data)
          /\ a \in c.html.pattern \/ (c.html.pattern = {} /\ a \in c.html.meta)

\* The exact number that is shown, where it can be read.
ShownNumber(shown) == IF shown.unreadable THEN 0 ELSE shown.exact

\* The number of subscribers on the page that is read, 0 if none can be read on it.
ExactSubs(c) ==
    LET data == DataRead(c) IN
    IF ~ShowsText(data) THEN ShownNumber(c.html.shown)
    ELSE IF ShownNumber(data.tabbed) # 0 THEN ShownNumber(data.tabbed)
    ELSE ShownNumber(data.header)

\* A product of floats falls short of its exact value only for a number with a unit.
ShownOK(shown) ==
    /\ shown.exact \in Nat /\ {shown.short, shown.unreadable} \subseteq BOOLEAN
    /\ shown.short => shown.exact >= 1000

PageOK(c) ==
    /\ \A shown \in {c.browse.tabbed, c.browse.header, c.page.tabbed, c.page.header,
                     c.html.shown} : ShownOK(shown)
    /\ IsFiniteSet(ReadChannel(c).social)
=============================================================================
