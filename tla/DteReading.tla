------------------------------ MODULE DteReading ------------------------------
(* What parseDte reads of a JSON document (dte-parser.ts, json-access.ts):  *)
(* pure operators, from a document to its outcome and, for a CCF, the one   *)
(* type the book takes, to the columns the book and its annex are made of.  *)
(*                                                                          *)
(* A JSON value is a record: [is |-> "number", v |-> thousandths], a text   *)
(* (already trimmed), an object (a function from its own keys), an array,   *)
(* or "other" (a boolean).  Absent stands for a missing key and for null.   *)
(* How a text reads as a number or a date is a table of the instance.       *)
EXTENDS Integers, SequencesExt

CONSTANTS Numeral,   \* texts that are numbers, with their thousandths
          Whole,     \* those among them without a point
          Calendar,  \* texts that are dates, with their day
          Printed    \* numbers as String() writes them

ASSUME Tables == /\ \A text \in DOMAIN Numeral : Numeral[text] \in Int
                 /\ \A text \in DOMAIN Calendar : Calendar[text] \in Int
                 /\ \A x \in DOMAIN Printed : Printed[x] # ""

Absent == [is |-> "absent"]
ReadOwn(obj, key) == IF key \in DOMAIN obj.v THEN obj.v[key] ELSE Absent
IsObject(x) == x.is = "object"
---------------------------------------------------------------------------
(* The getters: when a value is accepted, and as what.                     *)

OptionalText(x) == x.is \in {"absent", "number", "text"}
RequiredText(x) == x.is = "number" \/ (x.is = "text" /\ x.v # "")
Text(x) == CASE x.is = "number" -> Printed[x.v]
             [] x.is = "text" -> x.v
             [] OTHER -> ""

RequiredInt(x) == \/ x.is = "number" /\ x.v % 1000 = 0
                  \/ x.is = "text" /\ x.v \in Whole
OptionalInt(x) == x = Absent \/ RequiredInt(x)

RequiredDecimal(x) == x.is = "number" \/ (x.is = "text" /\ x.v \in DOMAIN Numeral)
DecimalOrZero(x) == x = Absent \/ RequiredDecimal(x)
Decimal(x) == CASE x = Absent -> 0
                [] x.is = "number" -> x.v
                [] OTHER -> Numeral[x.v]

RequiredDate(x) == x.is = "text" /\ x.v \in DOMAIN Calendar
OptionalArray(x) == x.is \in {"absent", "array"}
Elements(x) == IF x.is = "array" THEN x.v ELSE <<>>

(* The first of several names of a field that is there.                    *)
Aliased(obj, names) ==
  LET given == SelectSeq(names, LAMBDA key : ReadOwn(obj, key) # Absent)
  IN IF given = <<>> THEN Absent ELSE ReadOwn(obj, given[1])
---------------------------------------------------------------------------
(* The sections.  Every field that is not accepted adds an error, and one  *)
(* error is enough for the document to be invalid.                         *)

ReadsIdentificacion(o) ==
  /\ \A key \in {"version", "tipoModelo", "tipoOperacion"} : RequiredInt(ReadOwn(o, key))
  /\ \A key \in {"ambiente", "tipoDte", "numeroControl", "codigoGeneracion", "horEmi", "tipoMoneda"} :
        RequiredText(ReadOwn(o, key))
  /\ RequiredDate(ReadOwn(o, "fecEmi"))
  /\ OptionalInt(ReadOwn(o, "tipoContingencia"))
  /\ OptionalText(ReadOwn(o, "motivoContin"))

ReadsParty(o) ==
  /\ \A key \in {"nit", "nombre"} : RequiredText(ReadOwn(o, key))
  /\ \A key \in {"nrc", "nombreComercial", "codActividad", "descActividad", "telefono", "correo"} :
        OptionalText(ReadOwn(o, key))
  /\ LET direccion == ReadOwn(o, "direccion")
     IN \/ direccion = Absent
        \/ /\ IsObject(direccion)
           /\ \A key \in {"departamento", "municipio", "distrito", "complemento"} :
                 OptionalText(ReadOwn(direccion, key))

ReadsEmisorExtras(o) ==
  \A key \in {"tipoEstablecimiento", "codEstable", "codPuntoVenta"} : OptionalText(ReadOwn(o, key))

ReadsItem(o) ==
  /\ IsObject(o)
  /\ \A key \in {"numItem", "tipoItem", "uniMedida"} : RequiredInt(ReadOwn(o, key))
  /\ RequiredText(ReadOwn(o, "descripcion"))
  /\ \A key \in {"cantidad", "precioUni"} : RequiredDecimal(ReadOwn(o, key))
  /\ \A key \in {"numeroDocumento", "codigo", "codTributo"} : OptionalText(ReadOwn(o, key))
  /\ \A key \in {"montoDescu", "ventaNoSuj", "ventaExenta", "ventaGravada", "psv", "noGravado"} :
        DecimalOrZero(ReadOwn(o, key))
  /\ LET tributos == ReadOwn(o, "tributos")
     IN /\ OptionalArray(tributos)
        /\ \A i \in DOMAIN Elements(tributos) : RequiredText(Elements(tributos)[i])
ReadsItems(x) == x.is = "array" /\ x.v # <<>> /\ (\A i \in DOMAIN x.v : ReadsItem(x.v[i]))

(* The description of a tax is read with the first of its code only.       *)
CodeOf(tax) == Text(ReadOwn(tax, "codigo"))
IsFirst(taxes, i) == \A k \in 1 .. (i - 1) : CodeOf(taxes[k]) # CodeOf(taxes[i])
ReadsTax(taxes, i) ==
  /\ IsObject(taxes[i])
  /\ RequiredText(ReadOwn(taxes[i], "codigo"))
  /\ RequiredDecimal(ReadOwn(taxes[i], "valor"))
ReadsTaxes(x) ==
  /\ OptionalArray(x)
  /\ \A i \in DOMAIN Elements(x) : ReadsTax(Elements(x), i)
  /\ \A i \in DOMAIN Elements(x) :
       IsFirst(Elements(x), i) => OptionalText(ReadOwn(Elements(x)[i], "descripcion"))

ReadsPayment(o) ==
  /\ IsObject(o)
  /\ RequiredText(ReadOwn(o, "codigo"))
  /\ RequiredDecimal(ReadOwn(o, "montoPago"))
  /\ \A key \in {"referencia", "plazo"} : OptionalText(ReadOwn(o, key))
  /\ OptionalInt(ReadOwn(o, "periodo"))
ReadsPayments(x) ==
  /\ OptionalArray(x)
  /\ \A i \in DOMAIN Elements(x) : ReadsPayment(Elements(x)[i])

(* v3 uses the first name, v4 the second.                                  *)
IvaRetenido == <<"ivaRete1", "ivaRete">>
IvaPercibido == <<"ivaPerci1", "ivaPerci">>
RetencionRenta == <<"reteRenta", "reteRenta1">>

(* The remarks of the extension are looked at when resumen has none.       *)
ReadsObservaciones(o, extension) ==
  LET own == ReadOwn(o, "observaciones")
  IN /\ OptionalText(own)
     /\ Text(own) = "" /\ extension # Absent => OptionalText(ReadOwn(extension, "observaciones"))

ReadsResumen(o, extension) ==
  /\ \A key \in {"totalGravada", "montoTotalOperacion", "totalPagar"} :
        RequiredDecimal(ReadOwn(o, key))
  /\ RequiredText(ReadOwn(o, "totalLetras"))
  /\ RequiredInt(ReadOwn(o, "condicionOperacion"))
  /\ \A key \in {"totalNoSuj", "totalExenta", "subTotalVentas", "descuNoSuj", "descuExenta",
              "descuGravada", "porcentajeDescuento", "totalDescu", "subTotal", "totalNoGravado",
              "saldoFavor"} : DecimalOrZero(ReadOwn(o, key))
  /\ \A names \in {IvaRetenido, IvaPercibido, RetencionRenta} :
        DecimalOrZero(Aliased(o, names))
  /\ OptionalText(ReadOwn(o, "numPagoElectronico"))
  /\ ReadsObservaciones(o, extension)
---------------------------------------------------------------------------
(* The values.  A tax that comes twice is one with the sum of its values.  *)
(* Only what the annex is made of is carried over.                         *)

Consolidated(x, y) == x + y
TaxValue(taxes, code) ==
  FoldLeft(LAMBDA sum, tax : IF CodeOf(tax) = code
                             THEN Consolidated(sum, Decimal(ReadOwn(tax, "valor"))) ELSE sum,
           0, taxes)
IvaCreditoFiscal(resumen) == TaxValue(Elements(ReadOwn(resumen, "tributos")), "20")

Columns(raw) ==
  LET resumen == ReadOwn(raw, "resumen")
      items == ReadOwn(raw, "cuerpoDocumento")
      Of(key) == Decimal(ReadOwn(resumen, key))
  IN [fecEmi |-> Calendar[ReadOwn(ReadOwn(raw, "identificacion"), "fecEmi").v],
      emisorNit |-> Text(ReadOwn(ReadOwn(raw, "emisor"), "nit")),
      receptorNrc |-> Text(ReadOwn(ReadOwn(raw, "receptor"), "nrc")),
      totalExenta |-> Of("totalExenta"),
      totalNoSuj |-> Of("totalNoSuj"),
      totalGravada |-> Of("totalGravada"),
      ivaCreditoFiscal |-> IvaCreditoFiscal(resumen),
      montoTotalOperacion |-> Of("montoTotalOperacion"),
      numItems |-> [i \in DOMAIN items.v |-> Decimal(ReadOwn(items.v[i], "numItem"))]]
---------------------------------------------------------------------------
(* parseDte.  The peek is stricter than the getters: a version is a JSON   *)
(* number and a type a JSON text.                                          *)

SupportedVersions == {3000, 4000}
TipoDteCcf == "03"

ReadsSections(raw) ==
  /\ \A key \in {"identificacion", "emisor", "receptor", "resumen"} :
        IsObject(ReadOwn(raw, key))
  /\ ReadOwn(raw, "extension").is \in {"absent", "object"}
ReadsAll(raw) ==
  LET Of(key) == ReadOwn(raw, key)
  IN /\ ReadsSections(raw)
     /\ ReadsIdentificacion(Of("identificacion"))
     /\ ReadsParty(Of("emisor")) /\ ReadsEmisorExtras(Of("emisor"))
     /\ ReadsParty(Of("receptor"))
     /\ ReadsItems(Of("cuerpoDocumento"))
     /\ ReadsTaxes(ReadOwn(Of("resumen"), "tributos"))
     /\ ReadsPayments(ReadOwn(Of("resumen"), "pagos"))
     /\ ReadsResumen(Of("resumen"), Of("extension"))

ParseDte(raw) ==
  IF ~IsObject(raw) \/ ~IsObject(ReadOwn(raw, "identificacion"))
  THEN [kind |-> "not-dte"]
  ELSE LET version == ReadOwn(ReadOwn(raw, "identificacion"), "version")
           tipoDte == ReadOwn(ReadOwn(raw, "identificacion"), "tipoDte")
       IN IF version.is # "number" \/ version.v \notin SupportedVersions
          THEN [kind |-> "unsupported-version"]
          ELSE IF tipoDte.is # "text" THEN [kind |-> "invalid"]
          ELSE IF tipoDte.v # TipoDteCcf THEN [kind |-> "ignored-type"]
          ELSE IF ~ReadsAll(raw) THEN [kind |-> "invalid"]
          ELSE [kind |-> "parsed", dte |-> Columns(raw)]
=============================================================================
