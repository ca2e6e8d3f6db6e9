-------------------------- MODULE MCCrawlPipeline --------------------------
(* CrawlPipeline with two contents of the page.                   *)
EXTENDS CrawlPipeline

CONSTANTS a, b

TwoPages == {a, b}
=============================================================================
