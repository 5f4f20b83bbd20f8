---------------------------- MODULE ResponseHeader ----------------------------
(***************************************************************************)
(* struct HttpResponseHeader (src/src/http_parser.c): the status line, the *)
(* growing array of body fields and total_byte_length, by which            *)
(* ResponseToBuff allocates what SendHttpHeader writes.                    *)
(*                                                                         *)
(* A property is its key, the text up to and with its first blank, and its *)
(* length; keys are taken to occur in no property but their own, as is so  *)
(* for the properties src/src/http.c sets.  One header is followed from    *)
(* its {0} to its release, whatever calls it is given in between.          *)
(***************************************************************************)
EXTENDS Integers, SequencesExt

CONSTANTS Keys,                  \* keys of properties
          Lengths,               \* lengths a whole property may have
          StatusLengths,         \* lengths of version, code and status together
          HTTP_BODY_FIELD_LIMIT  \* include/http_parser.h

\* Counts for which the array is full; 2 is its first capacity.
PowersOfTwo == {1, 2, 4, 8, 16, 32, 64, 128}

ASSUME ResponseAssumption ==
    /\ Lengths \subseteq Nat \ {0}
    /\ StatusLengths \subseteq Nat \ {0}
    /\ HTTP_BODY_FIELD_LIMIT \in PowersOfTwo \ {1}

\* Two blanks, two "\r\n" and the NUL.
SIZEOF_HEADER_DELIMINATIONS == 7

VARIABLES
    status,            \* the length of the status line's parts, 0 before they are set
    body,              \* the properties, in the order of the array
    capacity,          \* pointers that fit the array, 0 before it is allocated
    total_byte_length,
    called             \* the property SetResponseProperty was called with last

vars == <<status, body, capacity, total_byte_length, called>>

Properties == [key : Keys, length : Lengths]

NoProperty == [key |-> "", length |-> 0]

number_of_body_fields == Len(body)

TypeOK ==
    /\ status \in StatusLengths \cup {0}
    /\ body \in Seq(Properties)
    /\ capacity \in PowersOfTwo \cup {0, 2 * HTTP_BODY_FIELD_LIMIT}
    /\ total_byte_length \in Int
    /\ called \in Properties \cup {NoProperty}

Init ==
    /\ status = 0 /\ body = <<>> /\ capacity = 0 /\ total_byte_length = 0
    /\ called = NoProperty

-----------------------------------------------------------------------------
SetResponseStatusLine ==
    /\ status = 0
    /\ \E length \in StatusLengths :
         /\ status' = length
         /\ total_byte_length' = total_byte_length + length + SIZEOF_HEADER_DELIMINATIONS
    /\ UNCHANGED <<body, capacity, called>>

\* Mutant: the array grows one property late.
CapacityGrowingLate ==
    IF number_of_body_fields = 0 THEN 2
    ELSE IF number_of_body_fields \in PowersOfTwo \ {2}
         THEN 2 * number_of_body_fields
         ELSE capacity

\* Mutant: the array grows by one slot at a time.
CapacityPlusOne == number_of_body_fields + 2

\* The first call allocates the array; a number of fields that is its own
\* NextHighestPowerOfTwo makes ExpandBodySize allocate twice that many.
CapacityFor ==
    IF number_of_body_fields = 0 THEN 2
    ELSE IF number_of_body_fields \in PowersOfTwo
         THEN 2 * number_of_body_fields
         ELSE capacity

\* Mutant: the length of a property that is replaced stays counted.
ReplacePropertyAdding(i, property) ==
    /\ body[i].key = property.key
    /\ body' = [body EXCEPT ![i] = property]
    /\ total_byte_length' = total_byte_length + property.length

ReplaceProperty(i, property) ==
    /\ body[i].key = property.key
    /\ body' = [body EXCEPT ![i] = property]
    /\ total_byte_length' = total_byte_length + (property.length - body[i].length)

\* Mutant: only the last property is compared.
IsNewKeyOfLast(key) == \A i \in DOMAIN body : i = Len(body) => body[i].key # key

IsNewKey(key) == \A i \in DOMAIN body : body[i].key # key

AppendProperty(property) ==
    /\ IsNewKey(property.key)
    /\ body' = Append(body, property)
    /\ total_byte_length' = total_byte_length + property.length

\* A full header takes nothing more, not even a new value for a key it has.
RefuseProperty ==
    /\ number_of_body_fields = HTTP_BODY_FIELD_LIMIT
    /\ UNCHANGED <<body, capacity, total_byte_length>>

\* The array grows before it is known whether the property is a new one.
StoreProperty(property) ==
    /\ number_of_body_fields # HTTP_BODY_FIELD_LIMIT
    /\ capacity' = CapacityFor
    /\ \/ AppendProperty(property)
       \/ \E i \in DOMAIN body : ReplaceProperty(i, property)

(***************************************************************************)
(* SetResponseContentType calls SetResponseProperty once for every         *)
(* extension that occurs in the path, SetResponseContentLength once.       *)
(***************************************************************************)
SetResponseProperty ==
    \E property \in Properties :
        /\ called' = property
        /\ RefuseProperty \/ StoreProperty(property)
        /\ UNCHANGED status

Next == SetResponseStatusLine \/ SetResponseProperty

Spec == Init /\ [][Next]_vars

(***************************************************************************)
(* ResponseToBuff changes nothing of the header.  It allocates             *)
(* total_byte_length bytes and writes the status line, the properties and  *)
(* the blank line there with strcpy and strcat, the NUL included.          *)
(* SendHttpHeader adds the length of its data to total_byte_length for the *)
(* call and puts the data over the NUL.                                    *)
(***************************************************************************)
ResponseToBuffAllocates == total_byte_length

\* One turn of its loop appends one property to what is written.
TextLength(start, properties) ==
    LET written[n \in 0 .. Len(properties)] ==
            IF n = 0 THEN start ELSE written[n - 1] + properties[n].length
    IN  written[Len(properties)]

ResponseToBuffWrites == TextLength(status + SIZEOF_HEADER_DELIMINATIONS, body)

-----------------------------------------------------------------------------
(* Properties.                                                              *)

(***************************************************************************)
(* ResponseToBuff fills its allocation exactly, whatever properties were   *)
(* set and replaced before: a byte more would be written behind it, a byte *)
(* less would leave a NUL between the header and the data that             *)
(* SendHttpHeader puts at total_byte_length - 1.                           *)
(***************************************************************************)
TextFillsBuffer == status # 0 => ResponseToBuffWrites = ResponseToBuffAllocates

\* Every property is stored in a slot the array has: it grows before it is full,
\* although its capacity is not kept anywhere but derived from the count.
FieldsFitArray == number_of_body_fields <= capacity

(***************************************************************************)
(* The array is the map that include/http_parser.h describes, from keys to *)
(* the last property set for each, until it is full: a key is never in it  *)
(* twice, a key it has is overwritten and not lost, however often and in   *)
(* whatever order properties are set.  A full header departs from that     *)
(* description: it keeps what it has, also when the key is one of its own. *)
(***************************************************************************)
lastSet == [key \in {body[i].key : i \in DOMAIN body} |->
               {body[i].length : i \in {j \in DOMAIN body : body[j].key = key}}]

Map == INSTANCE HeaderMap WITH fields <- lastSet, Limit <- HTTP_BODY_FIELD_LIMIT

KeptByFullHeader ==
    /\ number_of_body_fields = HTTP_BODY_FIELD_LIMIT
    /\ UNCHANGED lastSet

MapUntilFull ==
    Map!MapInit /\ [][Map!MapNext \/ KeptByFullHeader]_<<lastSet, called>>

=============================================================================
