CONSTANTS
  Objects = {o1, o2}
  Names <- Casings
  Key <- KeyOf
  Titled <- TitledName
  Members = {"get"}
  text = text
  Texts = {text}
  False = False
  Off <- Withheld
  Undefined = Undefined
  Literals <- Written
  MaxLists = 2
SPECIFICATION Spec
SYMMETRY Interchangeable
CHECK_DEADLOCK FALSE
INVARIANT ListsStayApart
 
