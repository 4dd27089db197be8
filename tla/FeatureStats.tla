---------------------------- MODULE FeatureStats ----------------------------
(***************************************************************************)
(* What utils/geojsonutils.js and utils/utils.js compute from the features *)
(* for charts, colours and the table, and what showcases/plots.jsx plots   *)
(* of it: pure functions, over every data set of a few features. Add reads *)
(* one more feature of a file. A value of a property is a number, a text   *)
(* that is numeric, another word, a date or null.                          *)
(***************************************************************************)
EXTENDS Integers, Sequences, FiniteSets

CONSTANTS
  Years,        \* the year of each day a date may name
  Features,     \* the features there may be in a file
  Limit,        \* of PropertyPlot, and the rows of a page: 10
  Few,          \* numbers of which it is enough to be half of the values: 10
  MaxFeatures   \* bound on the features

Num(n) == [kind |-> "number", val |-> n]
Text(n) == [kind |-> "text", val |-> n]
Word(n) == [kind |-> "word", val |-> n]
Date(n) == [kind |-> "date", val |-> n]
Null == [kind |-> "null", val |-> 0]
Male == Word(1)
Female == Word(2)
Value == {Null} \union [kind : {"number", "text", "word", "date"}, val : Int]

\* The columns that the charts ask for: of the third nothing is known.
ASSUME StatsAssumption ==
  /\ MaxFeatures \in Nat /\ Limit \in Nat \ {0} /\ Few \in Nat /\ Years \in Seq(Nat)
  /\ Features \subseteq [date : {Date(d) : d \in DOMAIN Years}, sex : {Male, Female}, n : Value]

VARIABLE features

\* The numbers of a set, ascending: each is where as many as its place are no
\* greater. What is at some places of s, in their order; s without what is
\* there before; s sorted, and stays as it is where it is equal. (Said by
\* counting and not by the library's folds, so that it can be reasoned about.)
\* Kinds that are mixed the code sorts otherwise; only the order within one
\* kind is ever relied on.
InOrder(S) ==
  [k \in 1..Cardinality(S) |-> CHOOSE n \in S : Cardinality({m \in S : m <= n}) = k]
At(s, places) == [k \in 1..Cardinality(places) |-> s[InOrder(places)[k]]]
Firsts(s) == {i \in DOMAIN s : \A j \in 1..(i - 1) : s[j] # s[i]}
Uniq(s) == At(s, Firsts(s))
NotAfter(s, i) == {j \in DOMAIN s : s[j].val < s[i].val \/ (s[j].val = s[i].val /\ j <= i)}
Sorted(s) == [k \in DOMAIN s |-> s[CHOOSE i \in DOMAIN s : Cardinality(NotAfter(s, i)) = k]]

\* The sum of a list of naturals: as many as it has places, each with a
\* number up to what is there.
Sum(s) == Cardinality(UNION {{i} \X (1..s[i]) : i \in DOMAIN s})

Column(c) == [i \in DOMAIN features |-> features[i][c]]
Count(s, x) == Cardinality({i \in DOMAIN s : s[i] = x})
---------------------------------------------------------------------------
(* geojsonutils.js and utils.js                                            *)

IsStringNumeric(x) == x.kind = "text"
Truthy(x) == CASE x.kind = "number" -> x.val # 0 [] x.kind = "null" -> FALSE [] OTHER -> TRUE

GetPropertyValues(c) == Uniq(Column(c))

GetKeyColumns == {c \in DOMAIN features[1] : Len(GetPropertyValues(c)) = Len(features)}

\* Mutant: the first of a value is not counted.
PropertyCountLess(c, list) ==
  [i \in DOMAIN list |-> [x |-> list[i], y |-> Count(Tail(Column(c)), list[i])]]

\* propertyCount, with the list it makes when it is given none.
PropertyCount(c, list) ==
  [i \in DOMAIN list |-> [x |-> list[i], y |-> Count(Column(c), list[i])]]

\* xyObjectByProperty: no nulls, and numeric texts as numbers.
Plain(x) == IF IsStringNumeric(x) THEN Num(x.val) ELSE x
Plains(fs, c) ==
  LET some == At(fs, {i \in DOMAIN fs : fs[i][c] # Null})
  IN [i \in DOMAIN some |-> Plain(some[i][c])]
XYObjectByProperty(fs, c) ==
  LET keys == Sorted(Uniq(Plains(fs, c)))
  IN [i \in DOMAIN keys |-> [x |-> keys[i], y |-> Count(Plains(fs, c), keys[i])]]

\* propertyCountByProperty(data, "sex", "date"): by the year of the date; an
\* object lists keys like these in their order.
YearOf(f) == Years[f.date.val]
YearKeys == InOrder({YearOf(features[i]) : i \in DOMAIN features})
PropertyCountByYear ==
  [y \in {YearOf(features[i]) : i \in DOMAIN features} |->
     [v \in {features[i].sex : i \in {j \in DOMAIN features : YearOf(features[j]) = y}} |->
        Cardinality({i \in DOMAIN features : YearOf(features[i]) = y /\ features[i].sex = v})]]

\* arrayPlotProps: more than 95% unique values are keys; numbers are more
\* than half of the values, or, if there are many, more than 95% of them.
UniqueValues(c) == Len(GetPropertyValues(c)) * 100 > 95 * Len(features)
Numbers(c) == Cardinality({i \in DOMAIN features : IsStringNumeric(features[i][c])})
MostlyNumbers(c) == Numbers(c) * 100 > (IF Numbers(c) > Few THEN 95 ELSE 50) * Len(features)

ArrayPlotProps(c) ==
  CASE UniqueValues(c) /\ ~MostlyNumbers(c) -> [type |-> "null", data |-> <<>>]
    [] MostlyNumbers(c) ->
         [type |-> "continuous", data |-> [i \in DOMAIN features |-> [x |-> Num(i - 1), y |-> features[i][c]]]]
    [] OTHER -> [type |-> "cardinal", data |-> XYObjectByProperty(features, c)]

\* generateDomain: a 0 is left out as null is, a "0" is kept as a text; the
\* values as they come first, and sorted if they are numbers.
DomainValue(x) == IF x.kind \in {"number", "text"} /\ x.val # 0 THEN Num(x.val) ELSE x
DomainValues(c) ==
  LET some == At(features, {i \in DOMAIN features : Truthy(features[i][c])})
  IN Uniq([i \in DOMAIN some |-> DomainValue(some[i][c])])

\* Mutant: the domain is not sorted.
GenerateDomainUnsorted(c) == DomainValues(c)

GenerateDomain(c) ==
  LET domain == DomainValues(c)
  IN IF \A i \in DOMAIN domain : domain[i].kind = "number" THEN Sorted(domain) ELSE domain

\* fill of _generateOptions and colorScale: where in the domain the colour
\* of a feature is found; without a value it has none.
ColourIndex(f, c) ==
  IF Truthy(DomainValue(f[c])) THEN {i \in DOMAIN GenerateDomain(c) : GenerateDomain(c)[i] = DomainValue(f[c])}
  ELSE {}

---------------------------------------------------------------------------
(* plots.jsx and Table.jsx                                                 *)

\* arrayOfYearAndProperty, the line of the males: the years with both.
LinesOfYears ==
  LET rows == PropertyCountByYear
      keys == InOrder({y \in DOMAIN rows : DOMAIN rows[y] = {Male, Female}})
  IN IF Len(YearKeys) < 2 THEN <<>>
     ELSE [i \in DOMAIN keys |-> [x |-> keys[i], y |-> rows[keys[i]][Male]]]

\* Mutant: the dates are sorted backwards.
PlotByPropertyByDateBackwards ==
  LET r == LinesOfYears xs == InOrder({r[i].x : i \in DOMAIN r})
  IN [x |-> [i \in DOMAIN xs |-> xs[Len(xs) + 1 - i]], y |-> [i \in DOMAIN r |-> r[i].y]]

\* plotByPropertyByDate: the x, of which no two are the same, are sorted,
\* the y are not.
PlotByPropertyByDate ==
  LET r == LinesOfYears
  IN [x |-> InOrder({r[i].x : i \in DOMAIN r}), y |-> [i \in DOMAIN r |-> r[i].y]]

\* PyramidPlot: a bar for each year; a year without males has none to draw.
PyramidPlot ==
  LET mf == PropertyCountByYear keys == YearKeys
  IN IF Len(keys) = 1 THEN <<>>
     ELSE [i \in DOMAIN keys |-> IF Male \in DOMAIN mf[keys[i]] THEN mf[keys[i]][Male] ELSE -1]

\* timePlot: the values of the two properties, each without repetitions.
TimePlot(c) == [x |-> GetPropertyValues("date"), y |-> GetPropertyValues(c)]

PropertyPlot(c, noLimit) ==
  XYObjectByProperty(IF ~noLimit /\ Len(features) > Limit THEN SubSeq(features, 1, Limit) ELSE features, c)

\* Table: the pages are numbered from one, the rows are sliced from zero;
\* without pages all rows are there.
NumPages == IF Len(features) > Limit THEN Len(features) \div Limit ELSE 1

\* Mutant: the last page is cut off at its rows.
TableRowsEnded(page) ==
  IF Len(features) > Limit THEN (page * Limit + 1) .. (page * Limit + Limit - 1) \intersect DOMAIN features
  ELSE DOMAIN features

TableRows(page) ==
  IF Len(features) > Limit THEN (page * Limit + 1) .. (page * Limit + Limit) \intersect DOMAIN features
  ELSE DOMAIN features

---------------------------------------------------------------------------

StatsInit == \E f \in Features : features = <<f>>

Add ==
  /\ Len(features) < MaxFeatures
  /\ \E f \in Features : features' = Append(features, f)

StatsNext == Add
StatsSpec == StatsInit /\ [][StatsNext]_features

---------------------------------------------------------------------------
\* What the points of a chart, and the counts of a year, add up to.
Total(points) == Sum([i \in DOMAIN points |-> points[i].y])
CountOf(y, v) == IF v \in DOMAIN PropertyCountByYear[y] THEN PropertyCountByYear[y][v] ELSE 0

\* The counts the charts show say of every feature where it is, once:
\* whichever way they are made, they add up to the features with a value; a
\* continuous chart has a point for each feature. A chart of one kind is
\* without points, as xyObjectByProperty returns undefined then, only where
\* no feature has a value.
CountsAddUp ==
  /\ \A c \in {"sex", "n"} : Total(PropertyCount(c, GetPropertyValues(c))) = Len(features)
  /\ Total(XYObjectByProperty(features, "n")) = Len(features) - Count(Column("n"), Null)
  /\ LET years == YearKeys
     IN Sum([i \in DOMAIN years |-> CountOf(years[i], Male) + CountOf(years[i], Female)]) = Len(features)
  /\ \A c \in {"sex", "n"} : LET chart == ArrayPlotProps(c) IN
       CASE chart.type = "continuous" -> Len(chart.data) = Len(features)
         [] chart.type = "cardinal" ->
              Total(chart.data) = Len(features) - Count(Column(c), Null)
         [] chart.type = "null" -> UniqueValues(c)

\* Each point of a line of years is the count of that year, though its x and
\* y are sorted apart, and a bar of the pyramid is it too. The two lists that
\* timePlot plots against each other are of the same features where both are
\* key columns (where they are not, they need not even be of one length).
PointsMatch ==
  LET counted(y) == Cardinality({i \in DOMAIN features : YearOf(features[i]) = y /\ features[i].sex = Male})
      plot == PlotByPropertyByDate
      bars == PyramidPlot
      years == YearKeys
  IN /\ \A i \in DOMAIN plot.x : plot.y[i] = counted(plot.x[i])
     /\ \A i \in DOMAIN bars : bars[i] = -1 \/ bars[i] = counted(years[i])
     /\ \A c \in {"sex", "n"} : {"date", c} \subseteq GetKeyColumns =>
          \A i \in DOMAIN features :
            TimePlot(c).x[i] = features[i].date /\ TimePlot(c).y[i] = features[i][c]

\* A numeric domain ascends, unless a "0" is in it, and every feature with a
\* value has its colour at one place of it.
DomainColours ==
  /\ \A c \in {"sex", "n"}, i \in DOMAIN features :
       Truthy(features[i][c]) => Cardinality(ColourIndex(features[i], c)) = 1
  /\ (\A i \in DOMAIN features : features[i].n.kind \in {"number", "text", "null"} /\ features[i].n # Text(0))
       => LET domain == GenerateDomain("n")
          IN \A i, j \in DOMAIN domain : i < j => domain[i].val < domain[j].val

\* A plot with a limit is of the first features, and a row of the table is
\* on one page; those of what would be page zero are on none.
LimitsShow ==
  /\ Total(PropertyPlot("sex", FALSE)) = IF Len(features) > Limit THEN Limit ELSE Len(features)
  /\ \A i \in DOMAIN features :
       Cardinality({p \in 1..NumPages : i \in TableRows(p)})
       = IF Len(features) > Limit /\ i <= Limit THEN 0 ELSE 1

=============================================================================
