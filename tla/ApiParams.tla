----------------------------- MODULE ApiParams -----------------------------
(***************************************************************************)
(* utils/api.js with App.js around Home and utils.updateHistory behind it: *)
(* where the value of each parameter comes from, which renders of the host *)
(* React.memo lets through, and what Home's own writes of the URL do to    *)
(* the query the next render reads. A boolean is shown by its text, and an *)
(* object of a JSON text by the text. Its specification is named ApiSpec,  *)
(* so that it can be extended beside another module.                       *)
(***************************************************************************)
EXTENDS Naturals

CONSTANTS
  HistoryStrings,   \* what updateHistory writes: defaultURL ..
  OtherStrings,     \* column, layerName
  Flags,            \* dark, hideSidebar ..
  Undefined,
  Texts,            \* non-empty values of strings
  Reread,           \* what qs reads of each, written into a URL as it is
  Objects,          \* viewports, data sets, selections, callbacks
  Backings,         \* what tgve-settings or the environment may give
  MaxRenders        \* bound on the renders of the host

Strings == HistoryStrings \union OtherStrings
Json == {"viewport", "data"}
Params == Strings \union Flags \union Json \union {"select", "onStateChange"}

ASSUME ParamsAssumption ==
  /\ MaxRenders \in Nat /\ "dark" \in Flags
  /\ Strings \intersect Flags = {}
  /\ (Strings \union Flags) \intersect (Json \union {"select", "onStateChange"}) = {}
  /\ Reread \in [Texts -> Texts \union {""}]
  /\ Backings \subseteq
       [Params -> {Undefined, "true", "false", "odd"} \union Texts \union Objects]

VARIABLES
  host,       \* the props the host last rendered App with
  shown,      \* those App last rendered with
  query,      \* the parameters of location.search
  seen,       \* those of App's last render
  settings, env,
  renders,
  wrote       \* observed: Home has written the URL

apiVars == <<host, shown, query, seen, settings, env, renders, wrote>>

\* What the host may give, and what the query may hold: the text of a
\* boolean may be any, that of an object no JSON.
Props(k) ==
  IF k \in Strings THEN {Undefined, ""} \union Texts
  ELSE IF k \in Flags THEN {Undefined, "true", "false"}
  ELSE IF k = "select" THEN {Undefined, "key:val", "odd"} \union Objects
  ELSE {Undefined} \union Objects
Queries(k) ==
  IF k \in Strings THEN {Undefined, ""} \union Texts
  ELSE IF k \in Flags THEN {Undefined, "true", "false", "odd"}
  ELSE IF k = "select" THEN {Undefined, "key:val", "odd"} \union Objects
  ELSE IF k \in Json THEN {Undefined, "odd"} \union Objects
  ELSE {Undefined}

\* What Home writes may also come from a document or the environment.
Searched(k) == Queries(k) \union {backing[k] : backing \in Backings}

Nothing == [k \in Params |-> Undefined]

\* A boolean in the JSON of tgve-settings is "odd" too: it is no text.
BoolStr(text) == IF text \in {"true", "false"} THEN text ELSE Undefined

JsonStr(text) == IF text \in Objects THEN text ELSE Undefined
KeySetObject(text) == IF text \in Objects \union {"key:val"} THEN text ELSE Undefined
Or(a, b) == IF a \in {Undefined, ""} THEN b ELSE a

\* Mutant: the props come first.
ApiValuePropsFirst(k, props, search) ==
  LET Taken(text) == IF k \in Flags THEN BoolStr(text) ELSE text
  IN CASE props[k] \notin {Undefined, ""} -> props[k]
       [] props[k] \in {Undefined, ""} /\ search[k] # Undefined -> Taken(search[k])
       [] OTHER -> Taken(IF settings[k] # Undefined THEN settings[k] ELSE env[k])

ApiValue(k, props, search) ==
  LET Taken(text) == IF k \in Flags THEN BoolStr(text) ELSE text
  IN CASE search[k] # Undefined -> Taken(search[k])
       [] search[k] = Undefined /\ props[k] \notin {Undefined, ""} -> props[k]
       [] OTHER -> Taken(IF settings[k] # Undefined THEN settings[k] ELSE env[k])

\* params(props, search)[k]; the data inside the document are among the
\* settings. With a select that is no selection the props' stands as it is.
Value(k, props, search) ==
  CASE k \in Strings \union (Flags \ {"dark"}) -> ApiValue(k, props, search)
    [] k = "dark" -> Or(ApiValue(k, props, search), "true")
    [] k = "select" -> Or(KeySetObject(Or(search[k], props[k])), props[k])
    [] k \in Json -> Or(Or(JsonStr(search[k]), props[k]), settings[k])
    [] k = "onStateChange" -> props[k]

apis == [k \in Params |-> Value(k, shown, seen)]

\* Mutant: the strings of the URL are left to Home's own comparison.
HasAPIChangedLess(values, compare) ==
  \/ \E k \in OtherStrings \union Flags : values[k] # compare[k]
  \/ values["select"] \in Objects
  \/ values["viewport"] # Undefined

\* Two values of data are compared only when they are arrays, which data for
\* Home are not; a callback not at all. A select counts as changed when the
\* former one is an object, whatever the new one is, and a viewport when
\* there was one.
HasAPIChanged(values, compare) ==
  \/ \E k \in Strings \union Flags : values[k] # compare[k]
  \/ values["select"] \in Objects
  \/ values["viewport"] # Undefined

ApiTypeOK ==
  /\ \A props \in {host, shown} : DOMAIN props = Params /\ \A k \in Params : props[k] \in Props(k)
  /\ \A search \in {query, seen} : DOMAIN search = Params /\ \A k \in Params : search[k] \in Searched(k)
  /\ settings \in Backings /\ env \in Backings
  /\ renders \in 0..MaxRenders /\ wrote \in BOOLEAN
  /\ apis["dark"] \in {"true", "false"}
  /\ \A k \in Flags : apis[k] \in {Undefined, "true", "false"}

AtMostOne(Of(_)) ==
  {Nothing} \union {[Nothing EXCEPT ![k] = v] : k \in Params, v \in UNION {Of(j) : j \in Params}}

ApiInit ==
  /\ host \in {p \in AtMostOne(Props) : \A k \in Params : p[k] \in Props(k)}
  /\ query \in {p \in AtMostOne(Queries) : \A k \in Params : p[k] \in Queries(k)}
  /\ shown = host /\ seen = query
  /\ settings \in Backings /\ env \in Backings
  /\ renders = 0 /\ wrote = FALSE

\* React.memo: App renders when hasAPIChanged says so.
HostRenders(props) ==
  /\ renders < MaxRenders
  /\ renders' = renders + 1
  /\ host' = props
  /\ IF HasAPIChanged(shown, props)
     THEN shown' = props /\ seen' = query
     ELSE UNCHANGED <<shown, seen>>
  /\ UNCHANGED <<query, settings, env, wrote>>

Reading(text) == IF text \in Texts THEN Reread[text] ELSE text

\* Mutant: the rest of the query stays.
WriteMerged ==
  [k \in Params |->
     IF k \notin HistoryStrings THEN query[k]
     ELSE IF apis[k] \in Texts \union {""} THEN Reading(apis[k]) ELSE Undefined]

\* The search string updateHistory builds, as qs will read it. The strings
\* are written without encoding and read with decoding: an & or # inside one
\* ends it, and %26 is an & when it is read. (What stands behind such an &
\* is taken to name no parameter of App.)
Write ==
  [k \in Params |->
     IF k \in HistoryStrings /\ apis[k] \in Texts \union {""}
     THEN Reading(apis[k]) ELSE Undefined]

\* Home._updateHistory, past its throttle.
UpdateHistory ==
  /\ query' = Write /\ wrote' = TRUE
  /\ UNCHANGED <<host, shown, seen, settings, env, renders>>

ApiNext ==
  \/ \E k \in Params : \E v \in Props(k) : HostRenders([host EXCEPT ![k] = v])
  \/ UpdateHistory

ApiSpec == ApiInit /\ [][ApiNext]_apiVars

---------------------------------------------------------------------------
\* What App shows of a parameter is what the host last asked for, however
\* many of its renders React.memo held back: strings and booleans always, a
\* viewport or a select object once App was rendered with one. (Data,
\* callbacks, a first viewport and a select in text wait for some other
\* change; selections here name a column.)
Watched ==
  Strings \union Flags
  \union {k \in {"viewport"} : shown[k] # Undefined}
  \union {k \in {"select"} : shown[k] \in Objects}
HostFollowed ==
  \A k \in Watched : Value(k, host, seen) = apis[k]

\* From its first write on, Home's URL decides over the strings in it: no
\* render of the host changes them any more. They change only in being read
\* after they were written as they are, once for each time that App reads its
\* own URL and Home writes it again; so the data App asks for may still change
\* without the host or the user.
OwnWritesWin ==
  [][wrote => \A k \in HistoryStrings :
       query[k] # Undefined =>
         /\ query'[k] \in {query[k], Reading(query[k])}
         /\ apis'[k] \in {apis[k], query[k]}]_apiVars

\* A write forgets the rest of the query: when App next renders, no other
\* parameter is what the URL the page was opened with said.
RestForgotten ==
  wrote /\ seen = query =>
    \A k \in Params \ HistoryStrings : apis[k] = Value(k, shown, Nothing)

=============================================================================
