------------------------------- MODULE Crawl --------------------------------
(***************************************************************************)
(* What data-fetch downloads for one voting: processVoting up to the       *)
(* fixture, with crawlVoting (backend/cmd/data-fetch/main.go).             *)
(*                                                                         *)
(* A breadth-first search from the links of the voting follows every link  *)
(* of every body, to a depth and for a number of nodes that are capped;    *)
(* then four bodies are looked up, in what was found or on the server.     *)
(* Each call of fetchURL is an answer or an error here; module FetchCache  *)
(* is what it does.                                                        *)
(***************************************************************************)
EXTENDS Naturals, Sequences, FiniteSets, SequencesExt

CONSTANTS URLs,
          Allowed,     \* those of the one host that isAllowedOpenParlAPIURL accepts
          SeedLists,   \* what buildVotingSeedURLs may return
          Affairs,     \* the URL of the voting's affairs
          DepthCaps,   \* what MaxDepth may be set to
          NodeCaps     \* what MaxNodesPerVoting may be set to

ASSUME URLsAssumption == IsFiniteSet(URLs) /\ Allowed \subseteq URLs
\* A voting without a link to its affairs gets one.
ASSUME SeedsAssumption == \A s \in SeedLists : /\ s \in Seq(URLs)
                                               /\ \E i \in DOMAIN s : s[i] = Affairs
\* parseFetchConfig refuses other values.
ASSUME CapsAssumption == DepthCaps \subseteq Nat /\ NodeCaps \subseteq Nat \ {0}

\* The bodies that processVoting looks up: affairs, contributors, docs, texts.
NumLookups == 4

VARIABLES links,     \* which URLs the body of each holds, under "links" or as next_page
          maxDepth, maxNodes,
          seeds,
          phase,     \* where processVoting is
          queue,     \* of crawlVoting: records of a URL and its depth
          seen,
          nodeCount,
          bodies,    \* the URLs whose body is there
          crawled,   \* those of them that the crawl has found
          lookups,   \* how many bodies have been looked up
          calls      \* how often fetchURL was called for each URL

config == <<links, maxDepth, maxNodes, seeds>>
crawlVars == <<config, phase, queue, seen, nodeCount, bodies, crawled, lookups, calls>>

Node == [url : URLs, depth : Nat]

CrawlTypeOK == /\ links \in [Allowed -> SUBSET URLs]
               /\ maxDepth \in DepthCaps /\ maxNodes \in NodeCaps /\ seeds \in SeedLists
               /\ phase \in {"crawl", "lookup", "done", "failed"}
               /\ queue \in Seq(Node)
               /\ seen \subseteq Allowed
               /\ nodeCount = Cardinality(seen) /\ nodeCount <= maxNodes + 1
               /\ crawled \subseteq seen
               /\ crawled \subseteq bodies
               /\ bodies \subseteq Allowed
               /\ lookups \in 0..NumLookups
               /\ calls \in [URLs -> Nat]

AtDepth(urls, d) == [i \in DOMAIN urls |-> [url |-> urls[i], depth |-> d]]

CrawlInit == /\ links \in [Allowed -> SUBSET URLs]
             /\ maxDepth \in DepthCaps
             /\ maxNodes \in NodeCaps
             /\ seeds \in SeedLists
             /\ phase = "crawl"
             /\ queue = AtDepth(seeds, 0)
             /\ seen = {}
             /\ nodeCount = 0
             /\ bodies = {}
             /\ crawled = {}
             /\ lookups = 0
             /\ calls = [u \in URLs |-> 0]

-----------------------------------------------------------------------------
(* The loop of crawlVoting.                                                *)

node == Head(queue)

\* Mutant: the cap is met one node too early.
OverTheCapEarly(n) == n >= maxNodes
OverTheCap(n) == n > maxNodes

Wanted(n) == n.depth <= maxDepth /\ n.url \in Allowed /\ n.url \notin seen

SkipNode == /\ phase = "crawl" /\ queue # <<>>
            /\ ~Wanted(node)
            /\ queue' = Tail(queue)
            /\ UNCHANGED <<config, phase, seen, nodeCount, bodies, crawled, lookups, calls>>

\* Mutant: a stack in place of the queue.
PushFirst(children) == AtDepth(children, node.depth + 1) \o Tail(queue)
\* The children go to the end, in whatever order the maps of the body are walked.
Push(children) == Tail(queue) \o AtDepth(children, node.depth + 1)

\* extractChildURLs gives each link once; those of other hosts are dropped.
Children(u) == links[u] \cap Allowed

\* The node is marked and fetchURL is called.
RequestNode == /\ phase = "crawl" /\ queue # <<>>
               /\ Wanted(node)
               /\ ~OverTheCap(nodeCount + 1)
               /\ seen' = seen \cup {node.url}
               /\ nodeCount' = nodeCount + 1
               /\ calls' = [calls EXCEPT ![node.url] = @ + 1]

VisitNode == /\ RequestNode
             /\ bodies' = bodies \cup {node.url}
             /\ crawled' = crawled \cup {node.url}
             /\ \E children \in SetToSeqs(Children(node.url)) :
                  queue' = Push(children)
             /\ UNCHANGED <<config, phase, lookups>>

\* The fetch or the write of the raw file fails.
VisitFails == /\ RequestNode
              /\ phase' = "failed"
              /\ queue' = <<>>
              /\ UNCHANGED <<config, bodies, crawled, lookups>>

\* The break: the crawl has ended, and well.
StopAtCap == /\ phase = "crawl" /\ queue # <<>>
             /\ Wanted(node)
             /\ OverTheCap(nodeCount + 1)
             /\ seen' = seen \cup {node.url}
             /\ nodeCount' = nodeCount + 1
             /\ queue' = <<>>
             /\ phase' = "lookup"
             /\ UNCHANGED <<config, bodies, crawled, lookups, calls>>

QueueEmpty == /\ phase = "crawl" /\ queue = <<>>
              /\ phase' = "lookup"
              /\ UNCHANGED <<config, queue, seen, nodeCount, bodies, crawled, lookups, calls>>

-----------------------------------------------------------------------------
(* The rest of processVoting.                                              *)

\* Mutant: the bodies of the crawl are not looked at.
FetchAgain(u) == /\ calls' = [calls EXCEPT ![u] = @ + 1]
                 /\ bodies' = bodies \cup {u}

\* bodyFromCacheOrFetch, of a URL that is allowed.
BodyFromCacheOrFetch(u) ==
  IF u \in bodies THEN UNCHANGED <<calls, bodies>>
  ELSE /\ calls' = [calls EXCEPT ![u] = @ + 1]
       /\ bodies' = bodies \cup {u}

\* The first is the voting's affairs; the affair found there names the others.
LookupOf(u) == phase = "lookup" /\ (lookups = 0 => u = Affairs)

Lookup(u) == /\ LookupOf(u)
             /\ u \in Allowed
             /\ BodyFromCacheOrFetch(u)
             /\ lookups' = lookups + 1
             /\ phase' = IF lookups' = NumLookups THEN "done" ELSE phase
             /\ UNCHANGED <<config, queue, seen, nodeCount, crawled>>

\* The URL is not allowed; or the fetch, the write or the decoding fails; or there
\* is no affair.
LookupFails(u) == /\ LookupOf(u)
                  /\ IF u \in Allowed THEN BodyFromCacheOrFetch(u)
                     ELSE UNCHANGED <<calls, bodies>>
                  /\ phase' = "failed"
                  /\ UNCHANGED <<config, queue, seen, nodeCount, crawled, lookups>>

CrawlNext == \/ SkipNode \/ VisitNode \/ VisitFails \/ StopAtCap \/ QueueEmpty
             \/ \E u \in URLs : Lookup(u) \/ LookupFails(u)

CrawlSpec == CrawlInit /\ [][CrawlNext]_crawlVars

-----------------------------------------------------------------------------
(* Properties.                                                             *)

\* Near[d]: what d links or fewer reach from the seeds, all of them allowed.
Near[d \in Nat] ==
  IF d = 0 THEN {u \in Allowed : \E i \in DOMAIN seeds : seeds[i] = u}
  ELSE Near[d - 1] \cup (Allowed \cap UNION {links[u] : u \in Near[d - 1]})

(***************************************************************************)
(* A URL is visited only after all that are nearer, so that the cap drops  *)
(* the farthest, in whatever order links are met: each URL counts with its *)
(* shortest way although seen (main.go:910) keeps the first that comes.    *)
(***************************************************************************)
NearestFirst ==
  \A d \in 0..maxDepth : crawled \subseteq Near[d] \/ Near[d] \subseteq crawled

(***************************************************************************)
(* The crawl ends with all that MaxDepth links reach, or with MaxNodes of  *)
(* them and more to come: neither a cycle nor a long way to a URL hides    *)
(* what lies behind it.                                                    *)
(***************************************************************************)
CrawlIsComplete ==
  phase \in {"lookup", "done"} =>
    \/ crawled = Near[maxDepth]
    \/ Cardinality(crawled) = maxNodes /\ crawled \subseteq Near[maxDepth]

(***************************************************************************)
(* No URL of a voting is requested twice, and none of another host, be it  *)
(* linked in a cycle, met by the crawl and looked up afterwards, or cut    *)
(* off by the cap and then looked up (main.go:943).                        *)
(***************************************************************************)
RequestedOnce ==
  \A u \in URLs : calls[u] <= 1 /\ (calls[u] = 1 => u \in Allowed)
=============================================================================
