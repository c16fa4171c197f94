-------------------------------- MODULE Events -------------------------------
(***************************************************************************)
(* HTTP messages as CloudFront Functions see them, and back:               *)
(* internal/cffunc/event.go.  A Field is the sequence of its values, a     *)
(* header's its lines.  Names are lower-cased in an event; as names are    *)
(* tokens here, that is not visible.                                       *)
(*                                                                         *)
(* A query parameter has the name and the value that unescaping gives, or  *)
(* what cannot be unescaped as it is; the value of a parameter or cookie   *)
(* without '=' is NoValue.                                                 *)
(***************************************************************************)
EXTENDS Headers, FiniteSets

CONSTANTS
  NameOrder,    \* the names of cookies and query parameters, in byte order
  Undecodable,  \* names and values that url.QueryUnescape refuses
  NoValue

ASSUME NameOrderAssumption == IsSeq(NameOrder) /\ IsInjective(NameOrder)
ASSUME EmptyAssumption == "" \in ToSet(NameOrder) /\ "" \notin Undecodable

IsPair(p) == p = [name |-> p.name, value |-> p.value] /\ p.name \in ToSet(NameOrder)

Sorted(names) == Kept(NameOrder, names)
Named(pairs) == {p.name : p \in ToSet(pairs)}
ValuesOf(pairs, n) ==
  LET mine == Kept(pairs, {p \in ToSet(pairs) : p.name = n}) IN [i \in DOMAIN mine |-> mine[i].value]

(* strings.Cut and url.QueryUnescape, whose error is discarded.            *)
AfterCut(value) == IF value = NoValue THEN "" ELSE value
Unescaped(x) == IF x \in Undecodable THEN "" ELSE x
Decoded(query) ==
  [i \in DOMAIN query |-> [name |-> Unescaped(query[i].name), value |-> Unescaped(AfterCut(query[i].value))]]

(* queryToFields and fieldsToQuery.                                        *)
QueryToFields(query) == [n \in Named(Decoded(query)) |-> ValuesOf(Decoded(query), n)]
FieldsToQuery(fields) ==
  LET Params(n) == [i \in DOMAIN fields[n] |-> [name |-> n, value |-> fields[n][i]]]
      names == Sorted(DOMAIN fields)
  IN  FlattenSeq([i \in DOMAIN names |-> Params(names[i])])

(* cookiesToMap, setCookiesToMap and their inverses: of several cookies    *)
(* with a name the last one counts, and a response's need a name.          *)
CookiesToMap(pairs) == [n \in Named(pairs) |-> AfterCut(Last(ValuesOf(pairs, n)))]
SetCookiesToMap(pairs) == LET map == CookiesToMap(pairs) IN Restrict(map, DOMAIN map \ {""})
CookiesToHeader(cookies) ==
  LET names == Sorted(DOMAIN cookies) IN [i \in DOMAIN names |-> [name |-> names[i], value |-> cookies[names[i]]]]

(* Mutant: Cookie stays among the headers.                                 *)
HeadersToFields_KeepsCookies(headers, viewerHeaders) == Overlay(viewerHeaders, headers)

(* headersToFields: the synthesized headers go over the viewer's.          *)
HeadersToFields(headers, viewerHeaders) == Overlay(viewerHeaders, DelHeaders(headers, {"Cookie", "Set-Cookie"}))

(* NewRequestEvent and ApplyToRequest.                                     *)
NewRequestEvent(r, viewerHeaders) ==
  [uri |-> r.path,
   querystring |-> QueryToFields(r.query),
   headers |-> SetHeader(HeadersToFields(r.headers, viewerHeaders), "Host", <<r.host>>),
   cookies |-> CookiesToMap(Get(r.headers, "Cookie"))]

(* Mutant: the cookies are not written back.                               *)
ApplyToRequest_NoCookies(e, r) ==
  [r EXCEPT !.path = e.uri, !.raw = FALSE, !.query = FieldsToQuery(e.querystring), !.headers = e.headers]

ApplyToRequest(e, r) ==
  [r EXCEPT !.path = e.uri,
            !.raw = FALSE,
            !.query = FieldsToQuery(e.querystring),
            !.headers = IF DOMAIN e.cookies = {} THEN e.headers
                        ELSE SetHeader(e.headers, "Cookie", CookiesToHeader(e.cookies))]

(* AttachResponse and HTTPHeaders.                                         *)
ResponseEvent(status, headers) ==
  LET lines == Lines(headers, "Set-Cookie")
  IN  [status |-> status,
       headers |-> HeadersToFields(headers, <<>>),
       cookies |-> SetCookiesToMap([i \in DOMAIN lines |-> lines[i][1]])]

HTTPHeaders(e) ==
  LET pairs == CookiesToHeader(e.cookies)
      added == [i \in DOMAIN pairs |-> <<pairs[i]>>]
  IN  IF DOMAIN e.cookies = {} THEN e.headers
      ELSE SetLines(e.headers, "Set-Cookie", Lines(e.headers, "Set-Cookie") \o added)
=============================================================================
