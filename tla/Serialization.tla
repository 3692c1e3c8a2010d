--------------------------- MODULE Serialization ---------------------------
(***************************************************************************)
(* How 3700Bridge turns the JSON of a message into an object and back:     *)
(* Serializable, Deserializable and IncrementallyDeserialize of utils.py   *)
(* for the fields of a BPDU.                                               *)
(*                                                                         *)
(* A JSON value is its type and its text, a JSON object a function from    *)
(* names to values; an object is its class and the values of its fields.   *)
(***************************************************************************)
CONSTANT Truncated  \* the JSON values that int() accepts, and the text of the
                    \* integer it makes of each

Value(is, text) == [is |-> is, text |-> text]
JSON == [is : {"str", "int", "float"}, text : STRING]

(* int() makes of an integer the same integer.                             *)
ASSUME IntAssumption ==
    \A v \in DOMAIN Truncated :
        /\ v \in JSON /\ Truncated[v] \in STRING
        /\ Value("int", Truncated[v]) \in DOMAIN Truncated
        /\ Truncated[Value("int", Truncated[v])] = Truncated[v]

BPDUFields == [f \in {"root", "cost", "port", "id"} |->
                  IF f \in {"cost", "port"} THEN "int" ELSE "str"]

(* deserialize_as_type for str and int.                                    *)
Convertible(type, v) == type = "int" => v \in DOMAIN Truncated
Converted(type, v) == Value(type, IF type = "int" THEN Truncated[v] ELSE v.text)

(* Deserializable.deserialize of a BPDU raises when a field is missing,     *)
(* cannot be converted or is left over.                                    *)
ReadsAsBPDU(json) ==
    /\ DOMAIN json = DOMAIN BPDUFields
    /\ \A f \in DOMAIN json : Convertible(BPDUFields[f], json[f])

AsBPDU(json) == [f \in DOMAIN BPDUFields |-> Converted(BPDUFields[f], json[f])]

(* IncrementallyDeserialize(BPDU, Any).                                    *)
Deserialize(json) ==
    IF ReadsAsBPDU(json) THEN [class |-> "BPDU", fields |-> AsBPDU(json)]
                         ELSE [class |-> "Any", fields |-> json]

(* Mutated form: all that is no object of the program becomes a string.    *)
SerializeAsText(object) == [f \in DOMAIN object.fields |-> Value("str", object.fields[f].text)]

(* Serializable.serialize: a BPDU becomes the object of its fields, a value *)
(* that cannot be serialized is left as it is.                             *)
Serialize(object) == object.fields
=============================================================================
