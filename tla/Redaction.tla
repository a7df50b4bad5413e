----------------------------- MODULE Redaction -----------------------------
(***************************************************************************)
(* What a tool result or a resource looks like once it has gone through    *)
(* the redactor (src/src/core/redaction).  A JSON document is the set of   *)
(* its leaves: the keys on the way to a value, outermost first, the        *)
(* value's text as the set of fragments it is made of, and the URL it is,  *)
(* if it is one.  Keys are compared without regard to case, so they stand  *)
(* here in lower case; the position in an array is no key and is left out. *)
(***************************************************************************)
EXTENDS Naturals, Sequences

REDACTED_PLACEHOLDER == "[REDACTED]"

REDACTED_KEYS ==
    {"authorization", "x-auth-token", "accesstoken", "apikey", "clientsecret", "cookie",
     "dburl", "env", "environment", "headers", "jwt", "openaiapikey", "password",
     "privatekey", "secret", "token"}

\* the fragments that one of the patterns matches
REDACTION_PATTERNS == {"bearer", "jwt", "sk-key"}

Leaf(path, text) == [path |-> path, text |-> text, url |-> {}]
UrlLeaf(path, url) == [path |-> path, text |-> {"a URL"}, url |-> {url}]

IsLeaf(leaf) ==
    /\ leaf = [path |-> leaf.path, text |-> leaf.text, url |-> leaf.url]
    /\ leaf.path \in Seq({leaf.path[i] : i \in DOMAIN leaf.path})

redactString(text) ==
    IF text \cap REDACTION_PATTERNS = {} THEN text
    ELSE (text \ REDACTION_PATTERNS) \cup {REDACTED_PLACEHOLDER}

\* nothing in src/ gives the redactor an allowlist
shouldRedactKey(key) == key \in REDACTED_KEYS

\* the keys of the path under which a whole subtree is replaced
Hidden(path) == {i \in 1 .. Len(path) : shouldRedactKey(path[i])}

\* mutant: the key that holds the value is looked at, the objects around it are not
redactInnermostKey(document) ==
    {IF leaf.path # <<>> /\ shouldRedactKey(leaf.path[Len(leaf.path)])
     THEN Leaf(leaf.path, {REDACTED_PLACEHOLDER})
     ELSE [leaf EXCEPT !.text = redactString(@)] : leaf \in document}

\* a subtree goes at its outermost redacted key
Outermost(path) == {i \in Hidden(path) : \A j \in Hidden(path) : i <= j}

\* what is in no such subtree is cleaned string by string
redactJsonLike(document) ==
    {[leaf EXCEPT !.text = redactString(@)] : leaf \in {l \in document : Hidden(l.path) = {}}}
    \cup UNION {{Leaf(SubSeq(leaf.path, 1, cut), {REDACTED_PLACEHOLDER})
                    : cut \in Outermost(leaf.path)} : leaf \in document}

\* createRedactor, or the passthrough the transports use when MCP_REDACT_SECRETS is false
redactValue(redactSecrets, document) ==
    IF redactSecrets THEN redactJsonLike(document) ELSE document
=============================================================================
