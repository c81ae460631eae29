------------------------------- MODULE HkIpoDocs -------------------------------
(***************************************************************************)
(* hkipo-official-docs: processes that look for the HKEX documents of an   *)
(* IPO, download and parse them, and share a directory of downloaded files *)
(* (--cache-dir) that has no lock and is never checked against the web.    *)
(*                                                                         *)
(* A document is "whole" or "cut"; what the patterns find in it is a set   *)
(* of fields, and of a cut document only those of its first pages.  The     *)
(* content type kept beside each file is left out: the url and the first   *)
(* bytes tell a PDF too.                                                   *)
(***************************************************************************)
EXTENDS Naturals, Sequences, FiniteSets, Missing

CONSTANTS
  DocProcess,   \* the processes of hkipo-official-docs
  Url,          \* the documents
  Oversized,    \* those of more than 8,000,000 bytes
  DatedUrl,     \* those whose url tells their day
  Listings,     \* what a search or a listing page may show: sequences of links
  FieldsOf,     \* the fields in a whole document
  EarlyFields,  \* those on its first pages
  MaxDocuments  \* max_documents_per_ipo

ASSUME DocAssumption == /\ MaxDocuments \in Nat \ {0}
                        /\ Listings \subseteq Seq(Url)
                        /\ None \notin {"whole", "cut"}
                        /\ \A u \in Url : EarlyFields[u] \subseteq FieldsOf[u]

VARIABLES
  file,      \* the shared directory: the body kept for each url, None if there is none
  docStep,   \* the step of each process
  shared,    \* does it use the directory?
  links,     \* the links it has still to fetch
  documents, \* the documents it has parsed: [url, body]
  docErrors, \* its source_errors: urls, and the reasons without one
  disturbed  \* history: the urls read while a process wrote them, or whose writer died or failed

docVars == <<file, docStep, shared, links, documents, docErrors, disturbed>>

Body == {"whole", "cut"}

\* _default_fetch reads no more than 8,000,000 bytes.
Download(u) == IF u \in Oversized THEN "cut" ELSE "whole"

\* _extract_document_links and _extract_new_listing_links, _dedupe_links: links of a type
\* the service knows, each url once, the first of them.
FirstLinks(found) == {i \in DOMAIN found : \A j \in 1 .. (i - 1) : found[j] # found[i]}
Deduped(found) ==
  [k \in 1 .. Cardinality(FirstLinks(found)) |->
     found[CHOOSE i \in FirstLinks(found) : Cardinality(FirstLinks(found) \cap 1 .. i) = k]]

\* The links of _scan_one: the listing pages are asked when the search shows none.  A page
\* that fails is None.
LinksOf(search, main, gem) ==
  LET shown(page) == IF page = None THEN <<>> ELSE page IN
    Deduped(IF shown(search) # <<>> THEN search ELSE shown(main) \o shown(gem))

FailedPages(search, main, gem) ==
  {page \in {"search"} : search = None}
  \cup {page \in {"main"} : search \in {None, <<>>} /\ main = None}
  \cup {page \in {"gem"} : search \in {None, <<>>} /\ gem = None}

\* _extract_structure_evidence and _extract_valuation_evidence, with _dedupe_evidence:
\* a field counts once, as the first document tells it.
Fields(parsed) ==
  UNION {IF parsed[k].body = "whole" THEN FieldsOf[parsed[k].url] ELSE EarlyFields[parsed[k].url] :
           k \in DOMAIN parsed}

\* _extract_source_time: the date in the url, or the first date in the text, whatever it
\* is the date of.  `textDate` is that one, None if the text has none.
SourceTime(u, textDate) == IF u \in DatedUrl THEN "published" ELSE textDate

\* The status of _scan_one.  "official_docs_not_found" needs no document and no error,
\* and a search that shows nothing is an error.
DocStatus(p) == CASE documents[p] # <<>> -> "official_docs_parsed"
                  [] documents[p] = <<>> /\ docErrors[p] # {} -> "official_docs_degraded"
                  [] OTHER -> "official_docs_not_found"
-----------------------------------------------------------------------------
DocInit ==
  /\ file = [u \in Url |-> None]
  /\ docStep = [p \in DocProcess |-> "idle"]
  /\ shared \in [DocProcess -> BOOLEAN]
  /\ links = [p \in DocProcess |-> <<>>] /\ documents = links
  /\ docErrors = [p \in DocProcess |-> {}]
  /\ disturbed = {}

\* The first part of _scan_one.
FindLinks(p, search, main, gem) ==
  LET found == LinksOf(search, main, gem)
      failed == FailedPages(search, main, gem)
  IN /\ docStep[p] = "idle"
     /\ links' = [links EXCEPT ![p] = SubSeq(found, 1, IF Len(found) < MaxDocuments
                                                       THEN Len(found) ELSE MaxDocuments)]
     /\ docErrors' = [docErrors EXCEPT ![p] = IF found = <<>> /\ failed = {}
                                              THEN {"no matching official documents found"}
                                              ELSE failed]
     /\ docStep' = [docStep EXCEPT ![p] = "next"]
     /\ UNCHANGED <<file, shared, documents, disturbed>>

\* The documents entry and the evidence of a body.
Parsed(p, body) ==
  /\ documents' = [documents EXCEPT ![p] = Append(@, [url |-> Head(links[p]), body |-> body])]
  /\ links' = [links EXCEPT ![p] = Tail(@)]

Writing(u) == \E q \in DocProcess : docStep[q] = "writing" /\ Head(links[q]) = u

\* _fetch_with_cache, when the file exists: whatever it holds now.
ReadFile(p) ==
  /\ docStep[p] = "next" /\ links[p] # <<>> /\ shared[p] /\ file[Head(links[p])] # None
  /\ Parsed(p, file[Head(links[p])])
  /\ disturbed' = disturbed \cup {u \in {Head(links[p])} : Writing(u)}
  /\ UNCHANGED <<file, docStep, shared, docErrors>>

\* When it does not: the fetch begins.
Fetch(p) ==
  /\ docStep[p] = "next" /\ links[p] # <<>>
  /\ shared[p] => file[Head(links[p])] = None
  /\ docStep' = [docStep EXCEPT ![p] = "fetching"]
  /\ UNCHANGED <<file, shared, links, documents, docErrors, disturbed>>

\* It fails, or the file cannot be opened.
FetchFails(p) ==
  /\ docStep[p] = "fetching"
  /\ docErrors' = [docErrors EXCEPT ![p] = @ \cup {Head(links[p])}]
  /\ links' = [links EXCEPT ![p] = Tail(@)]
  /\ docStep' = [docStep EXCEPT ![p] = "next"]
  /\ UNCHANGED <<file, shared, documents, disturbed>>

\* Mutant: what goes on to the parser is what the file holds.
FetchEnds_Reread(p) ==
  LET u == Head(links[p]) IN
    /\ docStep[p] = "fetching"
    /\ IF shared[p]
         THEN /\ file' = [file EXCEPT ![u] = "cut"]
              /\ Parsed(p, "cut")
              /\ docStep' = [docStep EXCEPT ![p] = "next"]
              /\ UNCHANGED <<shared, docErrors, disturbed>>
         ELSE /\ Parsed(p, Download(u))
              /\ docStep' = [docStep EXCEPT ![p] = "next"]
              /\ UNCHANGED <<file, shared, docErrors, disturbed>>

\* It succeeds: write_bytes has emptied the file and fills it, or nothing is kept.
FetchEnds(p) ==
  LET u == Head(links[p]) IN
    /\ docStep[p] = "fetching"
    /\ IF shared[p]
         THEN /\ file' = [file EXCEPT ![u] = "cut"]
              /\ docStep' = [docStep EXCEPT ![p] = "writing"]
              /\ UNCHANGED <<shared, links, documents, docErrors, disturbed>>
         ELSE /\ Parsed(p, Download(u))
              /\ docStep' = [docStep EXCEPT ![p] = "next"]
              /\ UNCHANGED <<file, shared, docErrors, disturbed>>

\* The file is written, and the body that was fetched goes on to the parser.
WriteEnds(p) ==
  /\ docStep[p] = "writing"
  /\ file' = [file EXCEPT ![Head(links[p])] = Download(Head(links[p]))]
  /\ Parsed(p, Download(Head(links[p])))
  /\ docStep' = [docStep EXCEPT ![p] = "next"]
  /\ UNCHANGED <<shared, docErrors, disturbed>>

\* write_bytes fails halfway, or the file is complete and the one beside it, which keeps the
\* content type, is not written: an error of this url, and what is on disk stays.
KeepFails(p) ==
  LET u == Head(links[p]) IN
    /\ docStep[p] = "writing"
    /\ \/ disturbed' = disturbed \cup {u} /\ file' = file
       \/ disturbed' = disturbed /\ file' = [file EXCEPT ![u] = Download(u)]
    /\ docErrors' = [docErrors EXCEPT ![p] = @ \cup {u}]
    /\ links' = [links EXCEPT ![p] = Tail(@)]
    /\ docStep' = [docStep EXCEPT ![p] = "next"]
    /\ UNCHANGED <<shared, documents>>

\* The process dies, and its file stays as it is.
DocDies(p) ==
  /\ docStep[p] \notin {"idle", "dead"}
  /\ disturbed' = IF docStep[p] = "writing" THEN disturbed \cup {Head(links[p])} ELSE disturbed
  /\ docStep' = [docStep EXCEPT ![p] = "dead"]
  /\ UNCHANGED <<file, shared, links, documents, docErrors>>

DocNext ==
  \E p \in DocProcess :
    \/ ReadFile(p) \/ Fetch(p) \/ FetchFails(p) \/ FetchEnds(p) \/ WriteEnds(p) \/ KeepFails(p)
    \/ DocDies(p)
    \/ \E search, main, gem \in Listings \cup {None} : FindLinks(p, search, main, gem)

DocSpec == DocInit /\ [][DocNext]_docVars
-----------------------------------------------------------------------------
(* Property. *)

\* Two processes tell the same text of a document, with the shared directory or without,
\* unless one read the file while the other wrote it, or the writer died or failed over it: then
\* the directory keeps the torn file and every later run parses that.  And a run that
\* ends without a document has an error to tell, so "official_docs_not_found" is never
\* told.  (_fetch_with_cache, _scan_one)
DocumentsAgree ==
  /\ \A p, q \in DocProcess : \A j \in DOMAIN documents[p], k \in DOMAIN documents[q] :
       documents[p][j].url = documents[q][k].url
         => \/ Fields(<<documents[p][j]>>) = Fields(<<documents[q][k]>>)
            \/ documents[p][j].url \in disturbed
  /\ \A p \in DocProcess :
       docStep[p] = "next" /\ links[p] = <<>> => DocStatus(p) # "official_docs_not_found"
=============================================================================
