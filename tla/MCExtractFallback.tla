------------------------- MODULE MCExtractFallback -------------------------
(***************************************************************************)
(* Constant definitions for the model checking of ExtractFallback.         *)
(***************************************************************************)
EXTENDS ExtractFallback, TLC

CONSTANTS p1, p2, p3

\* Two spellings of one page, one that differs from them in its scheme only, the
\* same with the port 80, which only its canonical form drops, another page, and
\* a page nobody asks for.
MCUrls == {"a?1", "a?2", "a http", "a:80", "b", "other"}
MCCanon == [u \in MCUrls |-> CASE u \in {"a?1", "a?2"} -> "a"
                               [] u = "a:80" -> "a http"
                               [] OTHER -> u]
MCRewrite == [u \in MCUrls |-> IF u \in {"a?1", "a?2", "a http"} THEN "a" ELSE u]

MCProviders == <<p1, p2>>
MCRequests == {<<"a?1", "b">>, <<"a?1", "a?2">>, <<"a?1", "a?2", "b">>, <<"a?1", "a http">>,
               <<"a http", "a:80">>, <<"b", "a http", "b">>}

MCItems == [url : MCUrls, sources : {{}}, says : {"page", "not_found"}]
             \cup [url : {"other"}, sources : {{"a?1"}}, says : {"page"}]
             \cup [url : {"b"}, sources : {{}}, says : {"blocked", "not_tried"}]
MCReplies == {<<>>} \cup {<<i>> : i \in MCItems} \cup {<<i, j>> : i, j \in MCItems}
=============================================================================
