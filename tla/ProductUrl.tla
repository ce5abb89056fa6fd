----------------------------- MODULE ProductUrl -----------------------------
(***************************************************************************)
(* The import of a product from its URL (parseProductUrl in                *)
(* src/src/features/product-url/product-url.service.js): the page is asked *)
(* for directly, over a few addresses and redirects, each hop under one    *)
(* timer and through a dispatcher of its own; when that fails in a way the *)
(* scraping service may mend, it is asked for the page.                    *)
(*                                                                         *)
(* One call is modelled, followed by others.  DNS, the shop, the scraping  *)
(* service and the timers are the environment: each answer of theirs is an *)
(* action, and a peer may stay silent for ever.  The wait in the finally   *)
(* block for the dispatcher to close is a step: a dispatcher closes once   *)
(* the response it carries has ended or has been aborted.                  *)
(***************************************************************************)
EXTENDS StructuredData

CONSTANTS
    MaxRedirects,   \* MAX_REDIRECTS
    MaxAddresses,   \* MAX_ADDRESS_ATTEMPTS
    Lookups,        \* how many addresses a host may have
    Pages           \* what the shop and the scraping service may return

ASSUME HopLimits == /\ MaxRedirects \in Nat
                    /\ MaxAddresses \in Nat \ {0}
                    /\ Lookups \subseteq Nat \ {0}
ASSUME PagesArePages == \A p \in Pages : IsPage(p)

VARIABLES
    step,         \* where parseProductUrl waits
    keyed,        \* whether SCRAPINGBEE_API_KEY is set
    hop,          \* redirectCount
    left,         \* candidate addresses of this hop not yet tried
    open,         \* dispatchers that are not closed
    body,         \* whether the response's body is still coming
    fired,        \* the AbortSignal of the request in hand
    pending,      \* what happens once the dispatcher has closed
    directError,  \* the error the direct way ended with
    answer        \* the status or error code the caller got

callVars == <<step, keyed, hop, left, open, body, fired, pending, directError, answer>>
importVars == <<callVars, scanVars>>

Steps == {"validate", "revalidate", "connect", "request", "redirect", "read",
          "close", "parse", "scrape", "scrapeRead", "answered"}
None == "none"
Mended == {"PRODUCT_URL4221", "PRODUCT_URL5021", "PRODUCT_URL5041"}
\* An error that is not an HttpError reaches the error handler as a 500.
Raw == "500"
Codes == Mended \cup {"COMMON4001", "PRODUCT_URL5022", Raw}

NoPage == [json |-> <<>>, state |-> <<>>, meta |-> {}, dom |-> {}, heading |-> FALSE]

ImportTypeOK ==
    /\ step \in Steps
    /\ keyed \in BOOLEAN
    /\ hop \in 0..MaxRedirects
    /\ left \in 0..MaxAddresses
    /\ open \in {0, 1}
    /\ body \in {None, "streaming", "ended"}
    /\ fired \in BOOLEAN
    /\ pending \in Codes \cup {None, "next", "html"}
    /\ directError \in Mended \cup {None}
    /\ answer \in Codes \cup {None, "200"}

ImportInit ==
    /\ step = "validate" /\ keyed \in BOOLEAN
    /\ hop = 0 /\ left = 0 /\ open = 0
    /\ body = None /\ fired = FALSE /\ pending = None
    /\ directError = None /\ answer = None
    /\ page = NoPage /\ scan = NoScan

-----------------------------------------------------------------------------
Answer(code) ==
    /\ step' = "answered"
    /\ answer' = code
    /\ fired' = FALSE
    /\ UNCHANGED directError

(* The catch block: the scraping service is tried for some errors, under a *)
(* timer of its own; fired is the timer of the request in hand.            *)
DirectFails(code) ==
    IF keyed /\ code \in Mended
    THEN /\ step' = "scrape"
         /\ directError' = code
         /\ fired' = FALSE
         /\ UNCHANGED answer
    ELSE Answer(code)

(* A failure after the request was made, whichever way it was made. *)
Fails(code) == IF directError = None THEN DirectFails(code) ELSE Answer(code)

(* As NextHop, but the redirect is not counted. *)
UncountedHop ==
    /\ step' = "connect"
    /\ fired' = FALSE
    /\ UNCHANGED <<hop, directError, answer>>

(* The next round of the loop of fetchProductPage has a timer of its own. *)
NextHop ==
    /\ step' = "connect"
    /\ hop' = hop + 1
    /\ fired' = FALSE
    /\ UNCHANGED <<directError, answer>>

-----------------------------------------------------------------------------
(* validatePublicUrl: the URL is malformed or leads to a private address,  *)
(* its host is unknown, or it has some addresses.                          *)
Invalid == {"COMMON4001", "PRODUCT_URL5021"}
Candidates == {IF n < MaxAddresses THEN n ELSE MaxAddresses : n \in Lookups}

(* The first validation is outside the try block. *)
Validate ==
    /\ step = "validate"
    /\ \/ /\ step' = "revalidate"
          /\ UNCHANGED <<fired, directError, answer>>
       \/ \E code \in Invalid : Answer(code)
    /\ UNCHANGED <<keyed, hop, left, open, body, pending, scanVars>>

Revalidate ==
    /\ step = "revalidate"
    /\ \/ /\ left' \in Candidates
          /\ step' = "connect"
          /\ UNCHANGED <<fired, directError, answer>>
       \/ /\ \E code \in Invalid : DirectFails(code)
          /\ UNCHANGED left
    /\ UNCHANGED <<keyed, hop, open, body, pending, scanVars>>

(* requestPinnedAddresses: a dispatcher for one address. *)
Connect ==
    /\ step = "connect"
    /\ step' = "request"
    /\ left' = left - 1
    /\ open' = open + 1
    /\ UNCHANGED <<keyed, hop, body, fired, pending, directError, answer, scanVars>>

(* As ConnectionLost, but the dispatcher of the failed attempt stays. *)
DispatcherLeaks(code) ==
    /\ UNCHANGED open
    /\ IF left > 0
       THEN step' = "connect" /\ UNCHANGED <<fired, directError, answer>>
       ELSE DirectFails(code)

(* An attempt fails: its dispatcher is closed and the next address is      *)
(* tried; the last error decides.                                          *)
ConnectionLost(code) ==
    /\ open' = open - 1
    /\ IF left > 0
       THEN step' = "connect" /\ UNCHANGED <<fired, directError, answer>>
       ELSE DirectFails(code)

Refused ==
    /\ step = "request" /\ ~fired
    /\ ConnectionLost("PRODUCT_URL5021")
    /\ UNCHANGED <<keyed, hop, left, body, pending, scanVars>>

(* The timer is shared: with it fired the remaining addresses fail too. *)
RequestTimesOut ==
    /\ step = "request" /\ fired
    /\ ConnectionLost("PRODUCT_URL5041")
    /\ UNCHANGED <<keyed, hop, left, body, pending, scanVars>>

(* The head of a response arrives, and its handling is decided. *)
Redirected ==
    /\ step = "request" /\ ~fired
    /\ \/ /\ hop < MaxRedirects
          /\ step' = "redirect"
          /\ UNCHANGED pending
       \/ /\ hop < MaxRedirects      \* new URL(location) throws
          /\ step' = "close"
          /\ pending' = Raw
       \/ /\ step' = "close"         \* no location, or one redirect too many
          /\ pending' = "PRODUCT_URL5021"
    /\ body' \in {"streaming", "ended"}
    /\ UNCHANGED <<keyed, hop, left, open, fired, directError, answer, scanVars>>

(* The target is validated while the dispatcher is open; a code is thrown  *)
(* through the finally block.                                              *)
ValidateTarget ==
    /\ step = "redirect"
    /\ step' = "close"
    /\ \/ left' \in Candidates /\ pending' = "next"
       \/ pending' \in Invalid /\ UNCHANGED left
    /\ UNCHANGED <<keyed, hop, open, body, fired, directError, answer, scanVars>>

(* Not ok: 5021; a declared length over the limit: 5022.  In both cases    *)
(* the body is left unread.                                                *)
Rejected ==
    /\ step = "request" /\ ~fired
    /\ step' = "close"
    /\ pending' \in {"PRODUCT_URL5021", "PRODUCT_URL5022"}
    /\ body' \in {"streaming", "ended"}
    /\ UNCHANGED <<keyed, hop, left, open, fired, directError, answer, scanVars>>

Accepted ==
    /\ step = "request" /\ ~fired
    /\ step' = "read"
    /\ body' = "streaming"
    /\ UNCHANGED <<keyed, hop, left, open, fired, pending, directError, answer, scanVars>>

(* readLimitedResponseBody, up to the finally block: the body is read, is  *)
(* cut off at the limit (reader.cancel), or breaks; with the timer fired a *)
(* read throws the abort error itself.                                     *)
BodyRead(outcome) ==
    /\ step = "read"
    /\ step' = "close"
    /\ body' = "ended"
    /\ pending' = outcome
    /\ UNCHANGED <<keyed, hop, left, open, fired, directError, answer>>

ReadPage == ~fired /\ BodyRead("html") /\ LoadPage(Pages)

ReadFails ==
    /\ ~fired
    /\ \E code \in {"PRODUCT_URL5022", Raw} : BodyRead(code)
    /\ UNCHANGED scanVars

ReadTimesOut == fired /\ BodyRead(Raw) /\ UNCHANGED scanVars

(* The rest of a body nobody reads arrives, or the timer ends it. *)
BodyEnds ==
    /\ step \in {"redirect", "close"} /\ body = "streaming"
    /\ body' = "ended"
    /\ UNCHANGED <<step, keyed, hop, left, open, fired, pending, directError,
                   answer, scanVars>>

Fire ==
    /\ step \in {"request", "redirect", "read", "close", "scrape", "scrapeRead"}
    /\ ~fired
    /\ fired' = TRUE
    /\ UNCHANGED <<step, keyed, hop, left, open, body, pending, directError,
                   answer, scanVars>>

(* The finally block: the dispatcher closes when its response is over. *)
Close ==
    /\ step = "close"
    /\ body = "ended" \/ fired
    /\ open' = open - 1
    /\ body' = None
    /\ pending' = None
    /\ CASE pending = "next" -> NextHop
         [] pending = "html" -> /\ step' = "parse"
                                /\ fired' = FALSE
                                /\ UNCHANGED <<hop, directError, answer>>
         [] OTHER -> DirectFails(pending) /\ UNCHANGED hop
    /\ UNCHANGED <<keyed, left, scanVars>>

-----------------------------------------------------------------------------
(* parseProductHtml. *)
Search ==
    /\ step = "parse" /\ ~ScanIsOver
    /\ ScanStep
    /\ UNCHANGED callVars

FinishParse ==
    /\ step = "parse" /\ ScanIsOver
    /\ IF IsComplete(ParsedProduct) THEN Answer("200") ELSE Fails("PRODUCT_URL4221")
    /\ UNCHANGED <<keyed, hop, left, open, body, pending, scanVars>>

(* fetchProductPageWithScrapingBee: refused or not ok, timed out, a        *)
(* declared length over the limit, or a body to read.                      *)
ScrapeEnds(code) ==
    /\ step \in {"scrape", "scrapeRead"}
    /\ Answer(code)
    /\ UNCHANGED <<keyed, hop, left, open, body, pending, scanVars>>

Scraped ==
    /\ step = "scrape" /\ ~fired
    /\ step' = "scrapeRead"
    /\ UNCHANGED <<keyed, hop, left, open, body, fired, pending, directError,
                   answer, scanVars>>

ScrapeFails ==
    /\ ~fired
    /\ \E code \in {"PRODUCT_URL5022", IF step = "scrape" THEN "PRODUCT_URL5021" ELSE Raw} :
          ScrapeEnds(code)

ScrapeTimesOut ==
    fired /\ ScrapeEnds(IF step = "scrape" THEN "PRODUCT_URL5041" ELSE Raw)

ReadScraped ==
    /\ step = "scrapeRead" /\ ~fired
    /\ step' = "parse"
    /\ LoadPage(Pages)
    /\ UNCHANGED <<keyed, hop, left, open, body, fired, pending, directError, answer>>

(* Another request; a call keeps nothing of the one before it. *)
NextCall ==
    /\ step = "answered"
    /\ step' = "validate"
    /\ LoadPage({NoPage})
    /\ hop' = 0 /\ left' = 0
    /\ directError' = None /\ answer' = None
    /\ UNCHANGED <<keyed, open, body, fired, pending>>

-----------------------------------------------------------------------------
(* What goes on without a peer, or at once when the timer has fired. *)
Own == Validate \/ Revalidate \/ ValidateTarget \/ Connect \/ Close
        \/ Search \/ FinishParse
        \/ RequestTimesOut \/ ReadTimesOut \/ ScrapeTimesOut

Peer == Refused \/ Redirected \/ Rejected \/ Accepted \/ ReadPage \/ ReadFails
         \/ BodyEnds \/ Scraped \/ ScrapeFails \/ ReadScraped

ImportNext == Own \/ Peer \/ Fire \/ NextCall

ImportSpec == ImportInit /\ [][ImportNext]_importVars

(* Lookups end by themselves, timers fire, the program goes on; no         *)
(* fairness for the shop or the scraping service.                          *)
Fairness == WF_importVars(Own) /\ WF_importVars(Fire)
LiveSpec == ImportSpec /\ Fairness

-----------------------------------------------------------------------------
(* Every call is answered, however long the shop redirects, refuses to     *)
(* answer, or keeps a body open that nobody reads: redirects are bounded,  *)
(* and each wait ends with the timer of its request.                       *)
EveryCallAnswered == (step # "answered") ~> (step = "answered")

(* Each hop has one dispatcher, and none is open once its hop is over: not *)
(* when the page is parsed, when the scraping service is asked, or when    *)
(* the caller has an answer, whichever way the hop ended.                  *)
DispatcherClosed ==
    open = IF step \in {"request", "redirect", "read", "close"} THEN 1 ELSE 0

(* A product that is answered is the one a reader of the page would point  *)
(* at: the first complete one within the limits of the search, in document *)
(* order, and a page is rejected only when it has none and its other parts *)
(* make none (parseProductHtml over findStructuredProduct).                *)
ProductIsFirst ==
    step = "parse" /\ ScanIsOver => ParsedProduct = ExpectedProduct
=============================================================================
