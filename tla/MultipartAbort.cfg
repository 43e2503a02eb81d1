\* A Complete and an Abort at once, on one upload of one part.
CONSTANTS
    a = a
    b = b
    Uploads = {u1}
    PartNumbers = {1}
    Bodies = {a, b}
    Objects = {o1}
    Submissions <- OneListEach
    Handlers = {h1, h2}
    None = None
SPECIFICATION Spec
PROPERTY AbortIsFinal
