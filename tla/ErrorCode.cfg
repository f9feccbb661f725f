\* Two objects, lists of up to three codes, numbers of one and of two bytes.
CONSTANTS
    Bits = 2
    Width = 4
    Objs = {ec1, ec2}
    Datas = {d1, d2, d3}
    Values <- MCValues
    Categories = {cat1, cat2}
    MaxDepth = 3
    Null = null
SPECIFICATION Spec
SYMMETRY Alike
INVARIANTS TypeOK ReadersAgree StackLaws
PROPERTIES ImplementsValues
