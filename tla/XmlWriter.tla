----------------------------- MODULE XmlWriter ------------------------------
(***************************************************************************)
(* XmlWriter of webutil/xml/xml_writer.cc: a document written element by   *)
(* element to libxml2, with the prefixes of its namespaces found by the    *)
(* PrefixMapper.  `elements' is what libxml2 has been told of the open     *)
(* elements, as a reader of the document will see it: the declarations of  *)
(* prefixes on each, whether its start tag is still open, and the names it *)
(* bears, each with the namespace the caller gave for it.                  *)
(*                                                                         *)
(* Callers keep to the life cycle of xml_writer.h: StartDocument, then     *)
(* calls with as many EndElement as StartElement, then EndDocument, and    *)
(* again.  What the code guards against itself they may do at any time.    *)
(***************************************************************************)
EXTENDS PrefixMapper

CONSTANTS
    NoURI,          \* NULL for a namespace
    NoPrefix,       \* no prefix: the default namespace
    Bindable,       \* the prefixes callers bind namespaces to
    SharedBindings, \* may a caller bind two namespaces to one prefix?
    MaxDepth        \* bound of the open elements

ASSUME NoURIAssumption == NoURI \notin URIs /\ NoPrefix \notin Prefixes
ASSUME BindableAssumption == Bindable \subseteq Prefixes \ {XmlPrefix, XmlnsPrefix}
ASSUME SharedBindingsAssumption == SharedBindings \in BOOLEAN

VARIABLES
    document,       \* "none", "open" or "ended": of w_ and buf_
    converting,     \* NeedToConvertString(): does the encoder change strings?
    mapper,         \* prefix_mapper_
    attributeOk,    \* attribute_adding_still_ok_
    elements,       \* libxml2: the open elements, innermost last
    dropped,        \* libxml2: was an attribute lost?
    started,        \* has anything been written since StartDocument?
    declared,       \* history: the << prefix, URI >> declared in the document
    died            \* why the process ended: "no", "encoding" or "attribute"

vars == << document, converting, mapper, attributeOk, elements, dropped,
           started, declared, died >>

Top == Len(elements)
Element(uses, declares) ==
    [declares |-> declares, names |-> uses, tagOpen |-> TRUE]

(* libxml2: content or a child closes the start tag of its parent. *)
TagClosed(es) ==
    IF es = << >> THEN es ELSE [es EXCEPT ![Len(es)].tagOpen = FALSE]
(* Its attribute is lost if the start tag is closed. *)
WithAttribute(es, uses, declares) ==
    IF es # << >> /\ es[Len(es)].tagOpen
    THEN [es EXCEPT ![Len(es)].names = @ \cup uses, ![Len(es)].declares = @ \o declares]
    ELSE es
Lost(es) == es = << >> \/ ~es[Len(es)].tagOpen

SeqRange(s) == {s[i] : i \in DOMAIN s}

(* A qualified name for namespace u, once the mapper has its prefix. *)
Name(m, u) == IF u = NoURI THEN {} ELSE {<< PrefixFor(m, u), u >>}
(* A namespace is declared where it is not in scope yet. *)
DeclarationAlways(m, u) ==                                    \* mutant
    IF u = NoURI THEN << >> ELSE << << PrefixFor(m, u), u >> >>
Declaration(m, u) ==
    IF u = NoURI \/ IsMapped(m, u) THEN << >> ELSE << << PrefixFor(m, u), u >> >>
Mapped(m, u) == IF u = NoURI THEN m ELSE GetPrefix(m, u)
WithinBounds(m, u) == u # NoURI => CanMap(m, u)

(* ConvertString dies if the text is not in the encoding of the input. *)
ConversionFails(convertible) == converting /\ ~convertible

Init ==
    /\ document = "none"
    /\ converting = FALSE
    /\ mapper = NewMapper
    /\ attributeOk = FALSE
    /\ elements = << >>
    /\ dropped = FALSE
    /\ started = FALSE
    /\ declared = {}
    /\ died = "no"

(* At any time; whatever was written is discarded. *)
StartDocument(known, converts) ==
    /\ mapper' = NewMapper
    /\ attributeOk' = FALSE
    /\ elements' = << >>
    /\ dropped' = FALSE
    /\ started' = FALSE
    /\ declared' = {}
    /\ converting' = (known /\ converts)
    /\ document' = IF known THEN "open" ELSE "none"
    /\ died' = IF known THEN died ELSE "encoding"

(* attribute_adding_still_ok_ is left as it is. *)
EndDocument ==
    /\ document = "open"
    /\ document' = "ended"
    /\ mapper' = NewMapper
    /\ elements' = << >>
    /\ UNCHANGED << converting, attributeOk, dropped, started, declared, died >>

StartElement(u) ==
    /\ document = "open"
    /\ Top < MaxDepth
    /\ WithinBounds(Push(mapper), u)
    /\ LET m == Push(mapper)
           d == Declaration(m, u)
       IN  /\ mapper' = Mapped(m, u)
           /\ elements' = Append(TagClosed(elements), Element(Name(m, u), d))
           /\ declared' = declared \cup SeqRange(d)
    /\ attributeOk' = TRUE
    /\ started' = TRUE
    /\ UNCHANGED << document, converting, dropped, died >>

StartElementDefaultNamespace(u) ==
    /\ document = "open"
    /\ Top < MaxDepth
    /\ mapper' = Push(mapper)
    /\ elements' = Append(TagClosed(elements),
                          Element({<< NoPrefix, u >>}, << << NoPrefix, u >> >>))
    /\ attributeOk' = TRUE
    /\ started' = TRUE
    /\ UNCHANGED << document, converting, dropped, declared, died >>

EndElementStillOk ==                                          \* mutant
    /\ document = "open"
    /\ elements # << >>
    /\ mapper' = Pop(mapper)
    /\ elements' = SubSeq(elements, 1, Top - 1)
    /\ UNCHANGED << document, converting, attributeOk, dropped, started, declared, died >>
EndElement ==
    /\ document = "open"
    /\ elements # << >>
    /\ mapper' = Pop(mapper)
    /\ elements' = SubSeq(elements, 1, Top - 1)
    /\ attributeOk' = FALSE
    /\ UNCHANGED << document, converting, dropped, started, declared, died >>

(* LOG_IF(FATAL): too late for an attribute of the open element. *)
TooLate ==
    /\ document = "open"
    /\ ~attributeOk
    /\ died' = "attribute"
    /\ UNCHANGED << document, converting, mapper, attributeOk, elements, dropped,
                    started, declared >>

DeclareNamespaceURI(u) ==
    /\ document = "open"
    /\ attributeOk
    /\ WithinBounds(mapper, u)
    /\ LET d == Declaration(mapper, u)
       IN  /\ mapper' = IF d = << >> THEN mapper ELSE GetPrefix(mapper, u)
           /\ elements' = WithAttribute(elements, {}, d)
           /\ dropped' = (dropped \/ (d # << >> /\ Lost(elements)))
           /\ declared' = declared \cup SeqRange(d)
    /\ UNCHANGED << document, converting, attributeOk, started, died >>

(* The contract: after StartDocument and before any other call. *)
BindNamespaceUriToPrefix(u, p) ==
    /\ document = "open"
    /\ ~started
    /\ u # XmlURI                                   \* CHECK(!IsMapped)
    /\ SharedBindings \/ \A v \in DOMAIN mapper.fixed : mapper.fixed[v] # p
    /\ mapper' = AssociatePrefix(mapper, u, p)
    /\ UNCHANGED << document, converting, attributeOk, elements, dropped,
                    started, declared, died >>

(* An attribute, its value convertible to UTF-8 or not. *)
AddAttribute(u, convertible) ==
    /\ document = "open"
    /\ attributeOk
    /\ WithinBounds(mapper, u)
    /\ LET d == Declaration(mapper, u)
           fails == ConversionFails(convertible)
           uses == IF fails THEN {} ELSE Name(mapper, u)
       IN  /\ mapper' = Mapped(mapper, u)
           /\ elements' = WithAttribute(elements, uses, d)
           /\ dropped' = (dropped \/ Lost(elements))
           /\ declared' = declared \cup SeqRange(d)
           /\ died' = IF fails THEN "encoding" ELSE died
    /\ UNCHANGED << document, converting, attributeOk, started >>

(* Text; with a namespace, a qualified name written as text. *)
Data(u, convertible) ==
    /\ document = "open"
    /\ u # NoURI => attributeOk
    /\ WithinBounds(mapper, u)
    /\ LET d == Declaration(mapper, u)
           fails == ConversionFails(convertible)
           uses == IF fails THEN {} ELSE Name(mapper, u)
       IN  /\ mapper' = Mapped(mapper, u)
           /\ elements' = IF fails THEN WithAttribute(elements, {}, d)
                          ELSE TagClosed(WithAttribute(elements, uses, d))
           /\ dropped' = (dropped \/ (d # << >> /\ Lost(elements)))
           /\ declared' = declared \cup SeqRange(d)
           /\ died' = IF fails THEN "encoding" ELSE died
           /\ attributeOk' = (fails /\ attributeOk)
    /\ started' = TRUE
    /\ UNCHANGED << document, converting >>

(* A section of character data is not converted, a comment is. *)
WriteCData ==
    /\ document = "open"
    /\ elements' = TagClosed(elements)
    /\ attributeOk' = FALSE
    /\ started' = TRUE
    /\ UNCHANGED << document, converting, mapper, dropped, declared, died >>

WriteComment(convertible) ==
    /\ document = "open"
    /\ IF ConversionFails(convertible)
       THEN /\ died' = "encoding"
            /\ UNCHANGED << elements, attributeOk >>
       ELSE /\ elements' = TagClosed(elements)
            /\ attributeOk' = FALSE
            /\ UNCHANGED died
    /\ started' = TRUE
    /\ UNCHANGED << document, converting, mapper, dropped, declared >>

(* StartElement, Data without namespace, EndElement. *)
DataElement(u, convertible) ==
    /\ document = "open"
    /\ Top < MaxDepth
    /\ WithinBounds(Push(mapper), u)
    /\ LET m == Push(mapper)
           d == Declaration(m, u)
       IN  /\ declared' = declared \cup SeqRange(d)
           /\ IF ConversionFails(convertible)
              THEN /\ died' = "encoding"
                   /\ mapper' = Mapped(m, u)
                   /\ elements' = Append(TagClosed(elements), Element(Name(m, u), d))
                   /\ attributeOk' = TRUE
              ELSE /\ mapper' = Pop(Mapped(m, u))
                   /\ elements' = TagClosed(elements)
                   /\ attributeOk' = FALSE
                   /\ UNCHANGED died
    /\ started' = TRUE
    /\ UNCHANGED << document, converting, dropped >>

(* The operations without a namespace, and those with one. *)
PlainOperation ==
    \/ StartElement(NoURI)
    \/ EndElement
    \/ TooLate
    \/ WriteCData
    \/ \E convertible \in BOOLEAN :
         \/ AddAttribute(NoURI, convertible)
         \/ Data(NoURI, convertible)
         \/ WriteComment(convertible)
         \/ DataElement(NoURI, convertible)

NamespaceOperation ==
    \E u \in URIs :
        \/ StartElement(u)
        \/ StartElementDefaultNamespace(u)
        \/ DeclareNamespaceURI(u)
        \/ \E convertible \in BOOLEAN :
             AddAttribute(u, convertible) \/ Data(u, convertible) \/ DataElement(u, convertible)
        \/ \E p \in Bindable : BindNamespaceUriToPrefix(u, p)

Next ==
    /\ died = "no"
    /\ \/ \E known, converts \in BOOLEAN : StartDocument(known, converts)
       \/ EndDocument
       \/ PlainOperation
       \/ NamespaceOperation

Spec == Init /\ [][Next]_vars
-----------------------------------------------------------------------------
(* What prefix p means to a reader at the i-th open element: the namespace *)
(* of the innermost declaration, of which there must be one only.          *)
DeclaresAt(i, p) == {u \in URIs : << p, u >> \in SeqRange(elements[i].declares)}
DeclaredIn(i, p) == {j \in 1..i : DeclaresAt(j, p) # {}}
Meaning(i, p) ==
    CASE DeclaredIn(i, p) # {} ->
           DeclaresAt(CHOOSE j \in DeclaredIn(i, p) : \A k \in DeclaredIn(i, p) : k <= j, p)
      [] DeclaredIn(i, p) = {} /\ p = XmlPrefix -> {XmlURI}
      [] OTHER -> {}

Pairs == (Prefixes \cup {NoPrefix}) \X URIs
TypeOK ==
    /\ document \in {"none", "open", "ended"}
    /\ died \in {"no", "encoding", "attribute"}
    /\ {converting, attributeOk, dropped, started} \subseteq BOOLEAN
    /\ declared \subseteq Pairs
    /\ elements \in Seq([declares : Seq(Pairs), names : SUBSET Pairs, tagOpen : BOOLEAN])
    /\ mapper.stack \in Seq(SUBSET URIs)
    /\ \A f \in {mapper.prefix, mapper.fixed} :
         DOMAIN f \subseteq URIs /\ SeqRange(f) \subseteq Prefixes
    /\ mapper.reserved \subseteq Bindable
    /\ mapper.counter \in 0..(MaxCounter + 1)

(* Every name in the document is read as one of the namespace the caller   *)
(* gave for it, wherever its prefix is declared and whatever prefixes are  *)
(* bound, made up, dropped and declared again around it.                   *)
NamesResolve ==
    \A i \in 1..Top : \A n \in elements[i].names : Meaning(i, n[1]) = {n[2]}

(* A prefix is declared once, instead of for every node: no element        *)
(* declares what an element around it has declared, nor a prefix twice,    *)
(* which would leave the document malformed.                               *)
DeclaredOnce ==
    \A i, j \in 1..Top : \A k \in DOMAIN elements[i].declares, l \in DOMAIN elements[j].declares :
        LET d == elements[i].declares[k]
            e == elements[j].declares[l]
        IN  /\ i = j /\ d[1] = e[1] => k = l
            /\ i < j /\ d = e => d[1] = NoPrefix

(* Across elements that have been closed and opened again, a namespace has *)
(* one prefix in the whole document, and a prefix one namespace.           *)
OnePrefixPerNamespace ==
    \A d, e \in declared : d[1] = e[1] <=> d[2] = e[2]

(* Attributes and declarations that come too late for libxml2 never reach  *)
(* it: the writer dies first.                                              *)
NothingDropped == ~dropped
=============================================================================
