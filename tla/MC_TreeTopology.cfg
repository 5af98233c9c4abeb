SPECIFICATION Spec
CONSTANT MaxNodes = 14
INVARIANT ChildrenAgreeWithParent
INVARIANT ParentFormsTree
