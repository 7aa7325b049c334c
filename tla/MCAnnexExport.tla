--------------------------- MODULE MCAnnexExport ---------------------------
(* Instances of AnnexExport.  Two books have the purchases of a contributor  *)
(* around the epoch, under one party or under two that a merge puts          *)
(* together, and one of somebody else.  The others have a single document    *)
(* each, written in the ways the parser and the annex tell apart.            *)
EXTENDS AnnexExport

N(x) == [is |-> "number", v |-> x]
T(s) == [is |-> "text", v |-> s]
Obj(f) == [is |-> "object", v |-> f]
Arr(s) == [is |-> "array", v |-> s]
Other == [is |-> "other", v |-> TRUE]

Nit == "06140101901012"
Dui == "040522092"
MCNumeral == "1" :> 1000 @@ "3" :> 3000 @@ "2.005" :> 2005
MCWhole == {"1", "3"}
MCCalendar == "2024-01-31" :> 31 @@ "2024-02-01" :> 32 @@ "2024-02-29" :> 60
MCPrinted == 20000 :> "20" @@ 3000 :> "3" @@ 40522000 :> "40522"
MCDigits == Nit :> 14 @@ Dui :> 9 @@ "40522" :> 5
---------------------------------------------------------------------------
(* A CCF of one item.                                                       *)
Identificacion(day) ==
  Obj([version |-> N(3000), tipoModelo |-> N(1000), tipoOperacion |-> N(1000), ambiente |-> T("01"),
       tipoDte |-> T("03"), numeroControl |-> T("nc"), codigoGeneracion |-> T("cg"),
       horEmi |-> T("h"), tipoMoneda |-> T("USD"), fecEmi |-> T(day)])
Tax(code, value) == Obj([codigo |-> code, descripcion |-> T("IVA"), valor |-> value])
Item(k) == Obj([numItem |-> k, tipoItem |-> N(1000), uniMedida |-> N(59000), descripcion |-> T("x"),
                cantidad |-> N(1000), precioUni |-> N(2005)])
Resumen == Obj([totalExenta |-> N(5), totalNoSuj |-> N(5), totalGravada |-> N(2005),
                montoTotalOperacion |-> N(2276), totalPagar |-> N(2276), totalLetras |-> T("x"),
                condicionOperacion |-> N(1000), ivaRete1 |-> N(0),
                tributos |-> Arr(<<Tax(T("20"), N(261))>>)])
Ccf(day, nrc) ==
  Obj([identificacion |-> Identificacion(day),
       emisor |-> Obj([nit |-> T(Nit), nombre |-> T("e")]),
       receptor |-> Obj([nit |-> T(Nit), nombre |-> T("r"), nrc |-> nrc]),
       cuerpoDocumento |-> Arr(<<Item(N(1000))>>), resumen |-> Resumen])
Set(obj, key, value) == Obj(key :> value @@ obj.v)
In(doc, section, key, value) == Set(doc, section, Set(ReadOwn(doc, section), key, value))

Plain == Ccf("2024-02-01", T("k"))
InResumen(key, value) == In(Plain, "resumen", key, value)

(* Documents that are read.                                                 *)
Read == "plain" :> Plain
     @@ "last" :> Ccf("2024-01-31", T("k")) @@ "leap" :> Ccf("2024-02-29", T("k"))
     @@ "foreign" :> Ccf("2024-02-01", T("other"))
     @@ "v4" :> In(In(Plain, "identificacion", "version", N(4000)), "resumen", "ivaRete", T("1"))
     @@ "quoted" :> InResumen("totalGravada", T("2.005"))
     @@ "exempt" :> In(InResumen("totalExenta", N(4)), "resumen", "totalNoSuj", N(4))
     @@ "twice" :> InResumen("tributos", Arr(<<Tax(T("20"), N(104)), Tax(T("59"), N(50)),
                                               Tax(N(20000), N(157))>>))
     @@ "untaxed" :> InResumen("tributos", Absent)
     @@ "minus" :> InResumen("totalGravada", N(-2005))
     @@ "minusZero" :> In(InResumen("totalExenta", N(-9)), "resumen", "totalNoSuj", N(5))
     @@ "person" :> In(Plain, "emisor", "nit", T(Dui))
     @@ "bare" :> In(Plain, "emisor", "nit", N(40522000))
     @@ "sum" :> InResumen("montoTotalOperacion", N(2300))

(* Documents that are not, and one with the same number of item twice.      *)
Unread == "other" :> Other
       @@ "text" :> In(Plain, "identificacion", "version", T("3"))
       @@ "ignored" :> In(Plain, "identificacion", "tipoDte", T("01"))
       @@ "code" :> In(Plain, "identificacion", "tipoDte", N(3000))
       @@ "empty" :> Set(Plain, "cuerpoDocumento", Arr(<<>>))
       @@ "party" :> In(Plain, "receptor", "direccion", T("x"))
       @@ "payment" :> InResumen("pagos", Arr(<<Other>>))
       @@ "remark" :> Set(Plain, "extension", Obj([observaciones |-> Other]))
       @@ "items" :> Set(Plain, "cuerpoDocumento", Arr(<<Item(N(1000)), Item(T("1"))>>))
MCContent == Read @@ Unread
MCFile == DOMAIN MCContent
---------------------------------------------------------------------------
MCKey == {"k", "other"}
MCKeyOf == <<"k", "k", "other">>
MCPeriod == {32 .. 60, 0 .. 60}

Full == [c \in Column |-> "1"]
Half == [c \in Column |-> IF c = "Q" THEN "1" ELSE Null]
Book(mails, receptors, blocks) ==
  [mail |-> [d \in Doc |-> IF d \in DOMAIN mails THEN mails[d] ELSE "other"],
   receptors |-> [d \in Doc |-> IF d \in DOMAIN receptors THEN receptors[d] ELSE 0],
   defaults |-> blocks]
Mails == <<"last", "leap", "plain", "plain", "foreign">>
MCBooks ==
  {Book(Mails, <<1, 1, 1, 0, 3>>, <<Half, NoBlock, Full>>),
   Book(Mails, <<2, 1, 2, 0, 3>>, <<Full, NoBlock, NoBlock>>)}
  \cup {Book(<<name>>, <<>>, <<Full, NoBlock, NoBlock>>) : name \in MCFile}
=============================================================================
