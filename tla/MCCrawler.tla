------------------------------ MODULE MCCrawler ------------------------------
(* Crawler on a page that links to itself and to a style sheet, which       *)
(* UrlFilter refuses; the page file of an earlier run has a relative link.  *)
EXTENDS Crawler

CONSTANTS a, none, rel, css

MCUrls     == {a, none}
MCRelative == {rel}
MCFiltered == {css}

MCPage  == [u \in MCUrls |-> IF u = a THEN <<css, a>> ELSE <<>>]
MCStale == {<<rel>>}
MCKnown == {}
=============================================================================
