\* A style of two faces with a main chain and one linked chain.
CONSTANTS
    f1 = f1
    f2 = f2
    latn = latn
    regular = regular
    Faces = {f1, f2}
    Tags = {latn}
    Main = Main
    Styles = {regular}
    Supports <- MCSupports
    MaxFaces = 2
SPECIFICATION Spec
INVARIANTS
    TypeOK
    SubscriptionsAreExact
    

    
