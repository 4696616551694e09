----------------------------- MODULE MCAcquisition -----------------------------
(***************************************************************************)
(* Small instances of Acquisition: crawls of one domain that compete for   *)
(* its slots, and an import that needs no request.                         *)
(***************************************************************************)
EXTENDS Acquisition, TLC

CONSTANTS crawl1, crawl2, import, site, source, w1, w2

OneCrawl == {crawl1}
CrawlsAndImport == {crawl1, crawl2, import}
MCDomains == {site}
MCSources == {source}
TwoWorkers == {w1, w2}

AllSameSource == [t \in Tasks |-> source]
AllSameDomain == [t \in Tasks |-> site]
MCTypeOf == [t \in Tasks |-> IF t = import THEN "ImportTask" ELSE "CrawlTask"]

Polite(cap) ==
  site :> [ cap |-> cap, minDelay |-> 1, errorBackoff |-> 1, maxBackoff |-> 2,
            budget |-> 2, window |-> 3 ]
Serial == Polite(1)
Wide == Polite(2)
Now == {0}
NowOrLater == {0, 2}
===============================================================================
